---- MODULE Spec2Model ----
(***************************************************************************)
(* Model of zope.app.locales.extract: the TokenEater scanner, the POTEntry *)
(* and POTMaker catalog, and the main() pipeline that joins them.          *)
(*                                                                         *)
(* Strings are sequences of character codes (ASCII), so that string        *)
(* comparison, prefix tests and concatenation are computed as Python       *)
(* computes them.  Python's None is the empty tuple None, and a value v    *)
(* that may be None is held as Some(v) == <<v>>.                           *)
(***************************************************************************)
EXTENDS Integers, Sequences, FiniteSets, TLC

VARIABLES
    eater,      \* the TokenEater instance (its private fields)
    eater2,     \* the TokenEater of a second, independent scan
    catalog,    \* POTMaker.catalog: dict msgid -> POTEntry, in insertion order
    catalog2,   \* the catalog of a second, independent POTMaker
    output,     \* the file written by POTMaker.write, one block per entry
    ossep,      \* os.sep of the platform the program runs on
    pc,         \* position of main() in its pipeline
    pot_header, \* POTMaker._pot_header, None while no POTMaker exists
    fs,         \* the directories and files the program has created
    nops,       \* number of operations performed so far
    last        \* the operation performed last, with its arguments

vars == <<eater, eater2, catalog, catalog2, output, ossep, pc, pot_header, fs,
          nops, last>>

(***************************************************************************)
(* Bounds of the model.                                                    *)
(***************************************************************************)
MaxLine == 2
MaxScans == 2
MaxOps == 2
MaxOcc == 2
MaxText == 3
MaxNotes == 3
MaxToks == 8
MaxArgs == 3

(***************************************************************************)
(* Python values.                                                          *)
(***************************************************************************)
None == <<>>
Some(v) == <<v>>
Val(o) == o[1]

\* truth value of an optional string: None and '' are false
Truthy(o) == o # None /\ Val(o) # <<>>

RECURSIVE StrLess(_, _)
\* s < t for two str objects (code point order)
StrLess(s, t) ==
    IF t = <<>> THEN FALSE
    ELSE IF s = <<>> THEN TRUE
    ELSE IF Head(s) # Head(t) THEN Head(s) < Head(t)
    ELSE StrLess(Tail(s), Tail(t))

RECURSIVE join(_)
\* ''.join(list of str)
join(l) == IF l = <<>> THEN <<>> ELSE Head(l) \o join(Tail(l))

\* s.startswith(p)
startswith(s, p) == Len(p) <= Len(s) /\ SubSeq(s, 1, Len(p)) = p

\* s.replace(old, '/') for a one-character old
replace(s, old) == [i \in 1..Len(s) |-> IF <<s[i]>> = old THEN 47 ELSE s[i]]

(***************************************************************************)
(* Tokens of the tokenize module: (ttype, tstring, start line).            *)
(***************************************************************************)
Tok(ttype, tstring, lineno) ==
    [ttype |-> ttype, tstring |-> tstring, lineno |-> lineno]

\* the source text of a string literal with value s: 's'
Literal(s) == <<39>> \o s \o <<39>>

\* pygettext.safe_eval: the value of a string literal token
safe_eval(tstring) == SubSeq(tstring, 2, Len(tstring) - 1)

\* zope.i18nmessageid.Message(msg, default=default): a str that carries a
\* default; it compares and hashes as the str msg alone.
Message(msg, default) == [text |-> msg, default |-> default]

(***************************************************************************)
(* TokenEater                                                              *)
(***************************************************************************)
\* TokenEater.__init__
TokenEater ==
    [messages |-> <<>>, state |-> "waiting", data |-> <<>>, lineno |-> -1,
     curfile |-> None, msgid |-> <<>>, default |-> None]

\* index of the key equal to msg in the dict d (0 when absent)
KeyIndex(d, msg) ==
    IF \E i \in 1..Len(d) : d[i].msgid.text = msg.text
    THEN CHOOSE i \in 1..Len(d) : d[i].msgid.text = msg.text
    ELSE 0

\* the inner dict d[entry] = isdocstring: entry is appended unless present
SetItem(d, entry) ==
    IF \E i \in 1..Len(d) : d[i] = entry THEN d ELSE Append(d, entry)

\* __addentry with the key replaced by the new Message (last default wins)
addentry_last_default(e, msg, default) ==
    LET m == Message(msg, default)
        entry == <<e.curfile, e.lineno>>
        i == KeyIndex(e.messages, m)
    IN IF i = 0
       THEN [e EXCEPT !.messages =
                Append(@, [msgid |-> m, locations |-> <<entry>>])]
       ELSE [e EXCEPT !.messages[i].msgid = m,
                      !.messages[i].locations = SetItem(@, entry)]

\* TokenEater.__addentry
addentry(e, msg, default) ==
    LET m == Message(msg, default)
        entry == <<e.curfile, e.lineno>>
        i == KeyIndex(e.messages, m)
    IN IF i = 0
       THEN [e EXCEPT !.messages =
                Append(@, [msgid |-> m, locations |-> <<entry>>])]
       ELSE [e EXCEPT !.messages[i].locations = SetItem(@, entry)]

\* TokenEater.__waiting
waiting(e, t) ==
    IF t.ttype = "NAME" /\ t.tstring = <<95>>
    THEN [e EXCEPT !.state = "keywordseen"]
    ELSE e

\* __keywordseen without `self.__lineno = lineno`
keywordseen_keeps_lineno(e, t) ==
    IF t.ttype = "OP" /\ t.tstring = <<40>>
    THEN [e EXCEPT !.data = <<>>, !.msgid = <<>>, !.default = None,
                   !.state = "openseen"]
    ELSE [e EXCEPT !.state = "waiting"]

\* __keywordseen that goes on waiting for the parenthesis when the marker
\* is named again
keywordseen_marker_again(e, t) ==
    IF t.ttype = "OP" /\ t.tstring = <<40>>
    THEN [e EXCEPT !.data = <<>>, !.msgid = <<>>, !.default = None,
                   !.lineno = t.lineno, !.state = "openseen"]
    ELSE IF t.ttype = "NAME" /\ t.tstring = <<95>>
    THEN e
    ELSE [e EXCEPT !.state = "waiting"]

\* __keywordseen without the reset of the buffer, the text and the default
keywordseen_no_reset(e, t) ==
    IF t.ttype = "OP" /\ t.tstring = <<40>>
    THEN [e EXCEPT !.lineno = t.lineno, !.state = "openseen"]
    ELSE [e EXCEPT !.state = "waiting"]

\* TokenEater.__keywordseen
keywordseen(e, t) ==
    IF t.ttype = "OP" /\ t.tstring = <<40>>
    THEN [e EXCEPT !.data = <<>>, !.msgid = <<>>, !.default = None,
                   !.lineno = t.lineno, !.state = "openseen"]
    ELSE [e EXCEPT !.state = "waiting"]

\* __openseen with the default taken from the buffer without the test
\* `if self.__data`
openseen_unguarded_default(e, t) ==
    IF \/ t.ttype = "OP" /\ t.tstring = <<41>>
       \/ t.ttype = "NAME" /\ t.tstring = <<109, 97, 112, 112, 105, 110, 103>>
    THEN LET done == [e EXCEPT !.state = "waiting"]
         IN IF e.data # <<>> \/ e.msgid # <<>>
            THEN IF Truthy(e.default)
                 THEN addentry(done, e.msgid, e.default)
                 ELSE IF e.msgid # <<>>
                 THEN addentry(done, e.msgid, Some(join(e.data)))
                 ELSE addentry(done, join(e.data), None)
            ELSE done
    ELSE IF t.ttype = "OP" /\ t.tstring = <<44>>
    THEN IF e.msgid = <<>>
         THEN [e EXCEPT !.msgid = join(e.data), !.data = <<>>]
         ELSE IF ~Truthy(e.default) /\ e.data # <<>>
         THEN [e EXCEPT !.default = Some(join(e.data)), !.data = <<>>]
         ELSE [e EXCEPT !.data = <<>>]
    ELSE IF t.ttype = "STRING"
    THEN [e EXCEPT !.data = Append(@, safe_eval(t.tstring))]
    ELSE e

\* __openseen where a string literal replaces the buffer
openseen_last_literal(e, t) ==
    IF \/ t.ttype = "OP" /\ t.tstring = <<41>>
       \/ t.ttype = "NAME" /\ t.tstring = <<109, 97, 112, 112, 105, 110, 103>>
    THEN LET done == [e EXCEPT !.state = "waiting"]
         IN IF e.data # <<>> \/ e.msgid # <<>>
            THEN IF Truthy(e.default)
                 THEN addentry(done, e.msgid, e.default)
                 ELSE IF e.msgid # <<>>
                 THEN IF e.data # <<>>
                      THEN addentry(done, e.msgid, Some(join(e.data)))
                      ELSE addentry(done, e.msgid, None)
                 ELSE addentry(done, join(e.data), None)
            ELSE done
    ELSE IF t.ttype = "OP" /\ t.tstring = <<44>>
    THEN IF e.msgid = <<>>
         THEN [e EXCEPT !.msgid = join(e.data), !.data = <<>>]
         ELSE IF ~Truthy(e.default) /\ e.data # <<>>
         THEN [e EXCEPT !.default = Some(join(e.data)), !.data = <<>>]
         ELSE [e EXCEPT !.data = <<>>]
    ELSE IF t.ttype = "STRING"
    THEN [e EXCEPT !.data = <<safe_eval(t.tstring)>>]
    ELSE e

\* __openseen without the test `if self.__data or self.__msgid`: a call
\* that collected nothing is recorded with the empty text
openseen_records_empty(e, t) ==
    IF \/ t.ttype = "OP" /\ t.tstring = <<41>>
       \/ t.ttype = "NAME" /\ t.tstring = <<109, 97, 112, 112, 105, 110, 103>>
    THEN LET done == [e EXCEPT !.state = "waiting"]
         IN IF Truthy(e.default)
            THEN addentry(done, e.msgid, e.default)
            ELSE IF e.msgid # <<>>
            THEN IF e.data # <<>>
                 THEN addentry(done, e.msgid, Some(join(e.data)))
                 ELSE addentry(done, e.msgid, None)
            ELSE addentry(done, join(e.data), None)
    ELSE IF t.ttype = "OP" /\ t.tstring = <<44>>
    THEN IF e.msgid = <<>>
         THEN [e EXCEPT !.msgid = join(e.data), !.data = <<>>]
         ELSE IF ~Truthy(e.default) /\ e.data # <<>>
         THEN [e EXCEPT !.default = Some(join(e.data)), !.data = <<>>]
         ELSE [e EXCEPT !.data = <<>>]
    ELSE IF t.ttype = "STRING"
    THEN [e EXCEPT !.data = Append(@, safe_eval(t.tstring))]
    ELSE e

\* TokenEater.__openseen
openseen(e, t) ==
    IF \/ t.ttype = "OP" /\ t.tstring = <<41>>
       \/ t.ttype = "NAME" /\ t.tstring = <<109, 97, 112, 112, 105, 110, 103>>
    THEN LET done == [e EXCEPT !.state = "waiting"]
         IN IF e.data # <<>> \/ e.msgid # <<>>
            THEN IF Truthy(e.default)
                 THEN addentry(done, e.msgid, e.default)
                 ELSE IF e.msgid # <<>>
                 THEN IF e.data # <<>>
                      THEN addentry(done, e.msgid, Some(join(e.data)))
                      ELSE addentry(done, e.msgid, None)
                 ELSE addentry(done, join(e.data), None)
            ELSE done
    ELSE IF t.ttype = "OP" /\ t.tstring = <<44>>
    THEN IF e.msgid = <<>>
         THEN [e EXCEPT !.msgid = join(e.data), !.data = <<>>]
         ELSE IF ~Truthy(e.default) /\ e.data # <<>>
         THEN [e EXCEPT !.default = Some(join(e.data)), !.data = <<>>]
         ELSE [e EXCEPT !.data = <<>>]
    ELSE IF t.ttype = "STRING"
    THEN [e EXCEPT !.data = Append(@, safe_eval(t.tstring))]
    ELSE e

\* TokenEater.__call__
call(e, t) ==
    CASE e.state = "waiting" -> waiting(e, t)
      [] e.state = "keywordseen" -> keywordseen(e, t)
      [] e.state = "openseen" -> openseen(e, t)

RECURSIVE tokenize(_, _)
\* the loop of py_strings that feeds the tokens of a stream to the eater
tokenize(e, toks) ==
    IF toks = <<>> THEN e ELSE tokenize(call(e, Head(toks)), Tail(toks))

\* TokenEater.set_filename
set_filename(e, filename) == [e EXCEPT !.curfile = Some(filename)]

(***************************************************************************)
(* pygettext.escape and pygettext.normalize, as set up by make_escapes(0). *)
(***************************************************************************)
\* the three octal digits of a byte
Octal(c) == <<48 + (c \div 64), 48 + ((c \div 8) % 8), 48 + (c % 8)>>

\* escapes[c] with the backslash passed through as it is
EscapeChar_plain_backslash(c) ==
    CASE c = 9 -> <<92, 116>>
      [] c = 13 -> <<92, 114>>
      [] c = 10 -> <<92, 110>>
      [] c = 34 -> <<92, 34>>
      [] OTHER -> IF 32 <= c /\ c <= 126 THEN <<c>> ELSE <<92>> \o Octal(c)

\* escapes[c]
EscapeChar(c) ==
    CASE c = 92 -> <<92, 92>>
      [] c = 9 -> <<92, 116>>
      [] c = 13 -> <<92, 114>>
      [] c = 10 -> <<92, 110>>
      [] c = 34 -> <<92, 34>>
      [] OTHER -> IF 32 <= c /\ c <= 126 THEN <<c>> ELSE <<92>> \o Octal(c)

RECURSIVE escape(_)
escape(s) == IF s = <<>> THEN <<>> ELSE EscapeChar(Head(s)) \o escape(Tail(s))

RECURSIVE split(_, _)
\* s.split(sep) for a one-character sep: the list of the pieces
split(s, sep) ==
    IF \E i \in 1..Len(s) : s[i] = sep
    THEN LET i == CHOOSE j \in 1..Len(s) :
                    s[j] = sep /\ \A k \in 1..(j - 1) : s[k] # sep
         IN <<SubSeq(s, 1, i - 1)>> \o split(SubSeq(s, i + 1, Len(s)), sep)
    ELSE <<s>>

RECURSIVE joinwith(_, _)
\* sep.join(list of str)
joinwith(sep, l) ==
    IF l = <<>> THEN <<>>
    ELSE IF Len(l) = 1 THEN Head(l)
    ELSE Head(l) \o sep \o joinwith(sep, Tail(l))

\* pygettext.normalize
normalize(s) ==
    LET lines == split(s, 10)
    IN IF Len(lines) = 1
       THEN <<34>> \o escape(s) \o <<34>>
       ELSE LET n == Len(lines)
                kept == IF lines[n] = <<>>
                        THEN [i \in 1..(n - 1) |->
                                IF i = n - 1 THEN lines[i] \o <<10>> ELSE lines[i]]
                        ELSE lines
                esc == [i \in 1..Len(kept) |-> escape(kept[i])]
            IN <<34, 34, 10, 34>> \o joinwith(<<92, 110, 34, 10, 34>>, esc) \o <<34>>

Whitespace == {9, 10, 11, 12, 13, 32}

RECURSIVE lstrip(_)
lstrip(s) ==
    IF s # <<>> /\ Head(s) \in Whitespace THEN lstrip(Tail(s)) ELSE s

RECURSIVE rstrip(_)
rstrip(s) ==
    IF s # <<>> /\ s[Len(s)] \in Whitespace
    THEN rstrip(SubSeq(s, 1, Len(s) - 1)) ELSE s

\* s.strip()
strip(s) == rstrip(lstrip(s))

RECURSIVE Decimal(_)
\* b'%d' % n for n >= 0
Decimal(n) == IF n < 10 THEN <<48 + n>> ELSE Decimal(n \div 10) \o <<48 + (n % 10)>>

(***************************************************************************)
(* POTEntry                                                                *)
(***************************************************************************)
\* POTEntry.__init__; cache holds the value that the Lazy property
\* `locations` has stored in the instance, None while it has stored none
POTEntry(msgid) ==
    [msgid |-> msgid, comments |-> <<>>, _locations |-> {}, cache |-> None]

\* (f1, l1) < (f2, l2) for two (filename, line) tuples
LocLess(x, y) ==
    IF x[1] # y[1] THEN StrLess(x[1], y[1]) ELSE x[2] < y[2]

RECURSIVE sorted(_)
\* sorted(a set of (filename, line) tuples), as a tuple
sorted(S) ==
    IF S = {} THEN <<>>
    ELSE LET m == CHOOSE x \in S : \A y \in S \ {x} : LocLess(x, y)
         IN <<m>> \o sorted(S \ {m})

\* POTEntry.locations: the value read
locations(entry) ==
    IF entry.cache # None THEN Val(entry.cache) ELSE sorted(entry._locations)

\* POTEntry.locations: the instance after the read, the value now cached
ReadLocations(entry) == [entry EXCEPT !.cache = Some(locations(entry))]

\* POTEntry.addComment
addComment(entry, comment) ==
    [entry EXCEPT !.comments = @ \o comment \o <<10>>]

\* addLocationComment without the purge of the cached `locations`
\* addLocationComment where the location takes the place of the stored ones
addLocationComment_replaces(entry, filename, line, sep) ==
    [entry EXCEPT !._locations = {<<replace(filename, sep), line>>},
                  !.cache = None]

\* addLocationComment where the cache is purged for a first location only
addLocationComment_purges_first(entry, filename, line, sep) ==
    [entry EXCEPT !._locations = @ \cup {<<replace(filename, sep), line>>},
                  !.cache = IF entry._locations = {} THEN None ELSE @]

addLocationComment_keeps_cache(entry, filename, line, sep) ==
    [entry EXCEPT !._locations = @ \cup {<<replace(filename, sep), line>>}]

\* addLocationComment that also appends the line `#: filename:line` to the
\* comments when the location is new
addLocationComment_into_comments(entry, filename, line, sep) ==
    [entry EXCEPT !._locations = @ \cup {<<replace(filename, sep), line>>},
                  !.comments =
                     IF <<replace(filename, sep), line>> \in entry._locations
                     THEN @
                     ELSE @ \o <<35, 58, 32>> \o replace(filename, sep)
                            \o <<58>> \o Decimal(line) \o <<10>>,
                  !.cache = None]

\* POTEntry.addLocationComment
addLocationComment(entry, filename, line, sep) ==
    [entry EXCEPT !._locations = @ \cup {<<replace(filename, sep), line>>},
                  !.cache = None]

RECURSIVE TupleLess(_, _)
\* s < t for two tuples of (filename, line) tuples
TupleLess(s, t) ==
    IF t = <<>> THEN FALSE
    ELSE IF s = <<>> THEN TRUE
    ELSE IF Head(s) # Head(t) THEN LocLess(Head(s), Head(t))
    ELSE TupleLess(Tail(s), Tail(t))

\* __eq__ that compares the comments as well
POTEntry_eq_with_comments(self, other) ==
    /\ locations(self) = locations(other)
    /\ self.msgid.text = other.msgid.text
    /\ self.comments = other.comments

\* POTEntry.__eq__
POTEntry_eq(self, other) ==
    locations(self) = locations(other) /\ self.msgid.text = other.msgid.text

\* __lt__ on (msgid, locations) instead of (locations, msgid)
POTEntry_lt_msgid_first(self, other) ==
    IF self.msgid.text # other.msgid.text
    THEN StrLess(self.msgid.text, other.msgid.text)
    ELSE TupleLess(locations(self), locations(other))

\* __lt__ on the locations alone
POTEntry_lt_locations_only(self, other) ==
    TupleLess(locations(self), locations(other))

\* POTEntry.__lt__
POTEntry_lt(self, other) ==
    IF locations(self) # locations(other)
    THEN TupleLess(locations(self), locations(other))
    ELSE StrLess(self.msgid.text, other.msgid.text)

RECURSIVE LocationLines(_)
\* the chunks written by the loop over self.locations
LocationLines(locs) ==
    IF locs = <<>> THEN <<>>
    ELSE <<(<<35, 58, 32>> \o Head(locs)[1] \o <<58>>
              \o Decimal(Head(locs)[2]) \o <<10>>)>>
         \o LocationLines(Tail(locs))

\* the chunk written for the default of a Message
DefaultLines(default) ==
    LET lines == split(normalize(strip(default)), 10)
        out == [i \in 1..Len(lines) |->
                  IF i = 1
                  THEN <<35, 46, 32, 68, 101, 102, 97, 117, 108, 116, 58, 32>>
                       \o lines[i] \o <<10>>
                  ELSE <<35, 46, 32, 32>> \o lines[i] \o <<10>>]
    IN join(out)

\* write with the default tested by truth value instead of `is not None`
POTEntry_write_truthy_default(entry) ==
    (IF entry.comments # <<>> THEN <<entry.comments>> ELSE <<>>)
    \o LocationLines(locations(entry))
    \o (IF Truthy(entry.msgid.default)
        THEN <<DefaultLines(Val(entry.msgid.default))>> ELSE <<>>)
    \o <<(<<109, 115, 103, 105, 100, 32>>
            \o normalize(entry.msgid.text) \o <<10>>)>>
    \o <<(<<109, 115, 103, 115, 116, 114, 32, 34, 34, 10>>)>>
    \o <<(<<10>>)>>

\* POTEntry.write: the chunks passed to file.write, in order
POTEntry_write(entry) ==
    (IF entry.comments # <<>> THEN <<entry.comments>> ELSE <<>>)
    \o LocationLines(locations(entry))
    \o (IF entry.msgid.default # None
        THEN <<DefaultLines(Val(entry.msgid.default))>> ELSE <<>>)
    \o <<(<<109, 115, 103, 105, 100, 32>>
            \o normalize(entry.msgid.text) \o <<10>>)>>
    \o <<(<<109, 115, 103, 115, 116, 114, 32, 34, 34, 10>>)>>
    \o <<(<<10>>)>>

(***************************************************************************)
(* POTMaker                                                                *)
(***************************************************************************)
\* strip_base_dir without the test filename.startswith(base_dir)
strip_base_dir_unconditional(filename, base_dir) ==
    SubSeq(filename, Len(base_dir) + 1, Len(filename))

\* strip_base_dir
strip_base_dir(filename, base_dir) ==
    IF startswith(filename, base_dir)
    THEN SubSeq(filename, Len(base_dir) + 1, Len(filename))
    ELSE filename

\* the catalog looked up by text and default together
CatIndex_with_default(cat, msgid) ==
    IF \E i \in 1..Len(cat) : cat[i].msgid = msgid
    THEN CHOOSE i \in 1..Len(cat) : cat[i].msgid = msgid
    ELSE 0

\* index of the entry with key msgid in the catalog dict (0 when absent)
CatIndex(cat, msgid) ==
    IF \E i \in 1..Len(cat) : cat[i].msgid.text = msgid.text
    THEN CHOOSE i \in 1..Len(cat) : cat[i].msgid.text = msgid.text
    ELSE 0

RECURSIVE AddLocations(_, _, _, _)
\* the inner loop of POTMaker.add over the locations of one msgid
AddLocations(entry, locs, base_dir, sep) ==
    IF locs = <<>> THEN entry
    ELSE LET filename == IF Truthy(base_dir)
                         THEN strip_base_dir(Head(locs)[1], Val(base_dir))
                         ELSE Head(locs)[1]
         IN AddLocations(addLocationComment(entry, filename, Head(locs)[2], sep),
                         Tail(locs), base_dir, sep)

\* the loop body without the test `if msgid not in self.catalog`
AddItem_new_entry(cat, item, base_dir, sep) ==
    IF item.msgid.text = <<>> THEN cat
    ELSE LET i == CatIndex(cat, item.msgid)
             c == IF i = 0 THEN Append(cat, POTEntry(item.msgid))
                  ELSE [cat EXCEPT ![i] = POTEntry(item.msgid)]
             j == IF i = 0 THEN Len(c) ELSE i
         IN [c EXCEPT ![j] = AddLocations(@, item.locations, base_dir, sep)]

\* the loop body without the test `if msgid == ''`
AddItem_blank_kept(cat, item, base_dir, sep) ==
    LET i == CatIndex(cat, item.msgid)
        c == IF i = 0 THEN Append(cat, POTEntry(item.msgid)) ELSE cat
        j == IF i = 0 THEN Len(c) ELSE i
    IN [c EXCEPT ![j] = AddLocations(@, item.locations, base_dir, sep)]

\* the body of the outer loop of POTMaker.add for one item of strings
AddItem(cat, item, base_dir, sep) ==
    IF item.msgid.text = <<>> THEN cat
    ELSE LET i == CatIndex(cat, item.msgid)
             c == IF i = 0 THEN Append(cat, POTEntry(item.msgid)) ELSE cat
             j == IF i = 0 THEN Len(c) ELSE i
         IN [c EXCEPT ![j] = AddLocations(@, item.locations, base_dir, sep)]

RECURSIVE POTMaker_add(_, _, _, _)
\* POTMaker.add(strings, base_dir): strings is the list of the dict's items
POTMaker_add(cat, strings, base_dir, sep) ==
    IF strings = <<>> THEN cat
    ELSE POTMaker_add(AddItem(cat, Head(strings), base_dir, sep),
                      Tail(strings), base_dir, sep)

RECURSIVE InsertSorted(_, _)
\* insert entry behind the entries of the sorted list l that are not above it
InsertSorted(l, entry) ==
    IF l = <<>> THEN <<entry>>
    ELSE IF POTEntry_lt(entry, l[Len(l)])
    THEN Append(InsertSorted(SubSeq(l, 1, Len(l) - 1), entry), l[Len(l)])
    ELSE Append(l, entry)

RECURSIVE SortEntries(_)
\* sorted(catalog): a stable sort that compares with __lt__
SortEntries(l) ==
    IF l = <<>> THEN <<>>
    ELSE InsertSorted(SortEntries(SubSeq(l, 1, Len(l) - 1)), l[Len(l)])

\* the header chunk: the `msgid ""` entry of the template, without the
\* metadata lines that carry the time and the version
Header == <<109, 115, 103, 105, 100, 32, 34, 34, 10,
            109, 115, 103, 115, 116, 114, 32, 34, 34, 10, 10>>

RECURSIVE WriteEntries(_)
\* the loop of POTMaker.write over the sorted entries
WriteEntries(l) ==
    IF l = <<>> THEN <<>> ELSE POTEntry_write(Head(l)) \o WriteEntries(Tail(l))

\* the header template files on disk: the file `h` exists and holds the
\* one line `# h`, the file `n` does not exist
os_path_exists(path) == path = <<104>>
read(path) == <<35, 32, 104, 10>>

\* POTMaker.__init__ that takes the default header for a missing file
POTMaker_init_fallback(header_template) ==
    IF header_template # None /\ os_path_exists(Val(header_template))
    THEN [raised |-> "", pot_header |-> Some(read(Val(header_template)))]
    ELSE [raised |-> "", pot_header |-> Some(Header)]

\* POTMaker.__init__: the header of the new POTMaker, or the exception
POTMaker_init(header_template) ==
    IF header_template # None
    THEN IF os_path_exists(Val(header_template))
         THEN [raised |-> "", pot_header |-> Some(read(Val(header_template)))]
         ELSE [raised |-> "ValueError", pot_header |-> None]
    ELSE [raised |-> "", pot_header |-> Some(Header)]

\* POTMaker.write: the content of the output file, the header first
POTMaker_write(header, cat) == <<header>> \o WriteEntries(SortEntries(cat))

\* POTMaker.write: the catalog afterwards, every entry's locations read
AfterWrite(cat) == [i \in 1..Len(cat) |-> ReadLocations(cat[i])]

(***************************************************************************)
(* TokenEater.getCatalog                                                   *)
(***************************************************************************)
\* x < y for two (curfile, lineno) entries of one scan
EntryLess(x, y) ==
    IF x[1] # y[1] THEN StrLess(Val(x[1]), Val(y[1])) ELSE x[2] < y[2]

RECURSIVE SortedEntries(_)
\* sorted(v.keys()): the entries of a key, ascending
SortedEntries(S) ==
    IF S = {} THEN <<>>
    ELSE LET m == CHOOSE x \in S : \A y \in S \ {x} : EntryLess(x, y)
         IN <<m>> \o SortedEntries(S \ {m})

RECURSIVE EntriesLess(_, _)
\* s < t for two tuples of entries
EntriesLess(s, t) ==
    IF t = <<>> THEN FALSE
    ELSE IF s = <<>> THEN TRUE
    ELSE IF Head(s) # Head(t) THEN EntryLess(Head(s), Head(t))
    ELSE EntriesLess(Tail(s), Tail(t))

RECURSIVE SortedGroups(_)
\* sorted(rkeys): the distinct tuples of entries, ascending
SortedGroups(G) ==
    IF G = {} THEN <<>>
    ELSE LET m == CHOOSE x \in G : \A y \in G \ {x} : EntriesLess(x, y)
         IN <<m>> \o SortedGroups(G \ {m})

RECURSIVE SortedTexts(_)
\* rentries.sort(): the keys of one group, ascending as str
SortedTexts(K) ==
    IF K = {} THEN <<>>
    ELSE LET m == CHOOSE x \in K : \A y \in K \ {x} : StrLess(x.text, y.text)
         IN <<m>> \o SortedTexts(K \ {m})

RECURSIVE GroupItems(_, _)
\* the items catalog[msgid] = [...] made for the keys of one group
GroupItems(keys, rkey) ==
    IF keys = <<>> THEN <<>>
    ELSE <<[msgid |-> Head(keys), locations |-> rkey]>>
         \o GroupItems(Tail(keys), rkey)

RECURSIVE CatalogItems(_, _)
\* the loop of getCatalog over the sorted groups
CatalogItems(e, rkeys) ==
    IF rkeys = <<>> THEN <<>>
    ELSE LET members == {e.messages[i].msgid :
                           i \in {j \in 1..Len(e.messages) :
                                    SortedEntries({e.messages[j].locations[k] :
                                        k \in 1..Len(e.messages[j].locations)})
                                    = Head(rkeys)}}
         IN GroupItems(SortedTexts(members), Head(rkeys))
            \o CatalogItems(e, Tail(rkeys))

\* getCatalog without the two sorts: the keys in the order of the dict
\* of messages, the entries of a key in the order they were recorded
getCatalog_unsorted(e) ==
    [i \in 1..Len(e.messages) |->
       [msgid |-> e.messages[i].msgid, locations |-> e.messages[i].locations]]

\* TokenEater.getCatalog: the items of the dict returned, in its order
getCatalog(e) ==
    CatalogItems(e,
        SortedGroups({SortedEntries({e.messages[i].locations[k] :
                                       k \in 1..Len(e.messages[i].locations)}) :
                        i \in 1..Len(e.messages)}))

\* py_strings: the catalog of an eater whose files all had a name, every
\* location a (filename, lineno) with the filename a str
py_strings(e) ==
    LET items == getCatalog(e)
    IN [i \in 1..Len(items) |->
          [msgid |-> items[i].msgid,
           locations |-> [k \in 1..Len(items[i].locations) |->
                            <<Val(items[i].locations[k][1]),
                              items[i].locations[k][2]>>]]]

(***************************************************************************)
(* Marker calls fed to the scanner.  A call is `_ ( args tail`, where      *)
(* each argument is a run of string literals or a name, and the tail is    *)
(* `)`, `, )` or `, mapping = x )`.                                        *)
(***************************************************************************)
StrArg(s) == <<[ttype |-> "STRING", tstring |-> Literal(s)]>>
NameArg == <<[ttype |-> "NAME", tstring |-> <<120>>]>>
Op(c) == [ttype |-> "OP", tstring |-> <<c>>]

\* '', 'a', 'b' and x
Args == {StrArg(<<>>), StrArg(<<97>>), StrArg(<<98>>), NameArg}
LaterArgs == {StrArg(<<98>>), NameArg}
Tails == {"close", "comma", "mapping"}

ArgLists ==
    {<<>>} \cup {<<a>> : a \in Args}
           \cup {<<a, b>> : a \in Args, b \in Args}
           \cup {<<a, b, c>> : a \in Args, b \in Args, c \in LaterArgs}

MarkerCalls ==
    {[lineno |-> l, args |-> as, tail |-> t] :
        l \in 1..MaxLine, as \in ArgLists, t \in Tails}

RECURSIVE ArgToks(_)
\* the tokens of an argument list, a comma between two arguments
ArgToks(as) ==
    IF as = <<>> THEN <<>>
    ELSE IF Len(as) = 1 THEN Head(as)
    ELSE Head(as) \o <<Op(44)>> \o ArgToks(Tail(as))

TailToks(t) ==
    CASE t = "close" -> <<Op(41)>>
      [] t = "comma" -> <<Op(44), Op(41)>>
      [] t = "mapping" ->
            <<Op(44),
              [ttype |-> "NAME", tstring |-> <<109, 97, 112, 112, 105, 110, 103>>],
              Op(61), [ttype |-> "NAME", tstring |-> <<120>>], Op(41)>>

\* the token stream of a marker call, every token on the call's line
CallToks(c) ==
    LET raw == <<[ttype |-> "NAME", tstring |-> <<95>>], Op(40)>>
               \o ArgToks(c.args) \o TailToks(c.tail)
    IN [i \in 1..Len(raw) |-> Tok(raw[i].ttype, raw[i].tstring, c.lineno)]

(***************************************************************************)
(* Initial state: a fresh TokenEater and two fresh POTMakers.              *)
(***************************************************************************)
Init ==
    /\ eater = TokenEater
    /\ eater2 = TokenEater
    /\ catalog = <<>>
    /\ catalog2 = <<>>
    /\ output = <<>>
    /\ ossep \in {<<47>>, <<92>>}
    /\ pc = [at |-> "start", base_dir |-> None, python_only |-> FALSE,
             opened |-> {}, tokenizer |-> None]
    /\ pot_header = Some(Header)
    /\ fs = {}
    /\ nops = 0
    /\ last = [op |-> "init"]

\* the tokens of one marker call are fed to the eater
Scan(c) ==
    /\ nops < MaxScans
    /\ eater' = tokenize(eater, CallToks(c))
    /\ nops' = nops + 1
    /\ last' = [op |-> "scan", call |-> c]
    /\ UNCHANGED <<catalog, catalog2, output, ossep, pc, pot_header, fs, eater2>>

ScanNext == \E c \in MarkerCalls : Scan(c)

SpecScan == Init /\ [][ScanNext]_vars

(***************************************************************************)
(* Mappings passed to POTMaker.add: the items of a dict msgid -> list of   *)
(* (filename, line), with str keys held as Messages without a default.     *)
(***************************************************************************)
Keys ==
    {Message(<<>>, None), Message(<<97>>, None), Message(<<97>>, Some(<<100>>)),
     Message(<<98>>, Some(<<>>))}

\* 'b/f' and 'b\f'
Paths == {<<98, 47, 102>>, <<98, 92, 102>>}

Locations == Paths \X (1..MaxLine)

LocLists == UNION {[1..n -> Locations] : n \in 0..MaxOcc}

\* dicts with one key, and dicts with two keys sighted at the same place
Mappings ==
    {<<[msgid |-> k, locations |-> l]>> : k \in Keys, l \in LocLists}
    \cup {<<[msgid |-> k[1], locations |-> <<l>>],
             [msgid |-> k[2], locations |-> <<l>>]>> :
            k \in {kk \in Keys \X Keys : kk[1].text # kk[2].text},
            l \in Paths \X {1}}

\* None and 'b/'
BaseDirs == {None, Some(<<98, 47>>)}

\* maker.add(strings, base_dir)
Add(strings, base_dir) ==
    /\ nops < MaxOps
    /\ catalog' = POTMaker_add(catalog, strings, base_dir, ossep)
    /\ nops' = nops + 1
    /\ last' = [op |-> "add", strings |-> strings, base_dir |-> base_dir]
    /\ UNCHANGED <<eater, catalog2, output, ossep, pc, pot_header, fs, eater2>>

\* maker.write()
Write ==
    /\ last.op # "write"
    /\ output' = POTMaker_write(Val(pot_header), catalog)
    /\ fs' = fs \cup {"output_file"}
    /\ catalog' = AfterWrite(catalog)
    /\ last' = [op |-> "write"]
    /\ UNCHANGED <<eater, catalog2, ossep, pc, nops, pot_header, eater2>>

\* maker.catalog[msgid].addComment(comment), the comment being '# c'
Comment(i) ==
    /\ i \in 1..Len(catalog)
    /\ nops < MaxOps
    /\ catalog' = [catalog EXCEPT ![i] = addComment(@, <<35, 32, 99>>)]
    /\ nops' = nops + 1
    /\ last' = [op |-> "comment", entry |-> i]
    /\ UNCHANGED <<eater, catalog2, output, ossep, pc, pot_header, fs, eater2>>

POTNext ==
    \/ \E strings \in Mappings, base_dir \in BaseDirs : Add(strings, base_dir)
    \/ Write
    \/ \E i \in 1..Len(catalog) : Comment(i)

SpecPOT == Init /\ [][POTNext]_vars

(***************************************************************************)
(* Two POTMakers that are given mappings independently of each other.      *)
(***************************************************************************)
\* dicts with one key at one place, and dicts with two keys at one place
PairMappings ==
    {<<[msgid |-> k, locations |-> <<l>>]>> : k \in Keys, l \in Locations}
    \cup {<<[msgid |-> k[1], locations |-> <<l>>],
             [msgid |-> k[2], locations |-> <<l>>]>> :
            k \in {kk \in Keys \X Keys : kk[1].text # kk[2].text},
            l \in Paths \X {1}}

\* maker.add(strings) on the first POTMaker
PairAdd1(strings) ==
    /\ nops < MaxOps
    /\ catalog' = POTMaker_add(catalog, strings, None, ossep)
    /\ nops' = nops + 1
    /\ last' = [op |-> "add", strings |-> strings, base_dir |-> None]
    /\ UNCHANGED <<eater, catalog2, output, ossep, pc, pot_header, fs, eater2>>

\* maker2.add(strings) on the second POTMaker
PairAdd2(strings) ==
    /\ nops < MaxOps
    /\ catalog2' = POTMaker_add(catalog2, strings, None, ossep)
    /\ nops' = nops + 1
    /\ last' = [op |-> "add2", strings |-> strings, base_dir |-> None]
    /\ UNCHANGED <<eater, catalog, output, ossep, pc, pot_header, fs, eater2>>

PairNext ==
    \/ \E strings \in PairMappings : PairAdd1(strings)
    \/ \E strings \in PairMappings : PairAdd2(strings)

SpecPair == Init /\ [][PairNext]_vars

(***************************************************************************)
(* main(): py_strings scans the files, then the catalogs of the Python     *)
(* code, of the ZCML and of the page templates are added and written.      *)
(***************************************************************************)
\* the marker calls of the scanned files: _('a'), _('a', 'b'), _('a', '')
\* and the same for the text 'b'
PyCalls ==
    {c \in MarkerCalls :
        /\ c.tail = "close"
        /\ Len(c.args) \in {1, 2}
        /\ c.args[1] \in {StrArg(<<97>>), StrArg(<<98>>)}
        /\ Len(c.args) = 2 => c.args[2] \in {StrArg(<<98>>), StrArg(<<>>)}}

\* the mappings returned by zcml_strings and tal_strings
OtherStrings ==
    {<<>>}
    \cup {<<[msgid |-> k, locations |-> <<l>>]>> :
            k \in {Message(<<97>>, None), Message(<<97>>, Some(<<100>>))},
            l \in {<<(<<98, 47, 102>>), 1>>, <<(<<103>>), 2>>}}

\* the command lines of main: -p and -s are absent, name a path that is
\* missing or name one that exists; -o is absent, names a directory to
\* be made or one that exists; -s comes before -p or after it
Argvs ==
    [p : {"absent", "missing", "exists"}, s : {"absent", "missing", "exists"},
     o : {"absent", "new", "exists"}, python_only : BOOLEAN, sfirst : BOOLEAN]

\* the checks of main without the one for a site_zcml that is not given
usage_message_site_optional(argv) ==
    IF argv.sfirst /\ argv.s = "missing" THEN "site.zcml does not exist"
    ELSE IF argv.p = "missing" THEN "path does not exist"
    ELSE IF argv.s = "missing" THEN "site.zcml does not exist"
    ELSE IF argv.p = "absent" THEN "provide the module search path"
    ELSE ""

\* the message main calls usage(1, msg) with, "" when it does not: the
\* options are checked in their order, then the path, then the site_zcml
usage_message(argv) ==
    IF argv.sfirst /\ argv.s = "missing" THEN "site.zcml does not exist"
    ELSE IF argv.p = "missing" THEN "path does not exist"
    ELSE IF argv.s = "missing" THEN "site.zcml does not exist"
    ELSE IF argv.p = "absent" THEN "provide the module search path"
    ELSE IF argv.s = "absent" THEN "provide the location of the root ZCML file"
    ELSE ""

\* main up to the construction of the POTMaker: usage prints the message
\* and exits with status 1, or the output directory is made if it is
\* missing and the POTMaker is constructed
Main(argv, base_dir) ==
    /\ pc.at = "start"
    /\ IF usage_message(argv) # ""
       THEN /\ pc' = [pc EXCEPT !.at = "exit"]
            /\ last' = [op |-> "main", argv |-> argv,
                        stderr |-> usage_message(argv), status |-> Some(1)]
            /\ UNCHANGED <<catalog, pot_header, fs, eater2>>
       ELSE /\ pc' = [pc EXCEPT !.at = "py", !.base_dir = base_dir,
                                !.python_only = argv.python_only]
            /\ fs' = IF argv.o = "new" THEN fs \cup {"output_dir"} ELSE fs
            /\ pot_header' = POTMaker_init(None).pot_header
            /\ catalog' = <<>>
            /\ last' = [op |-> "main", argv |-> argv, stderr |-> "",
                        status |-> None]
    /\ UNCHANGED <<eater, catalog2, output, ossep, nops, eater2>>

\* py_strings: the next file is opened
OpenFile(filename) ==
    /\ pc.at = "py"
    /\ filename \notin pc.opened
    /\ eater' = set_filename(eater, filename)
    /\ pc' = [pc EXCEPT !.opened = @ \cup {filename}]
    /\ last' = [op |-> "open", filename |-> filename]
    /\ UNCHANGED <<catalog, catalog2, output, ossep, nops, pot_header, fs, eater2>>

\* py_strings: the tokens of a marker call of the open file are scanned
PyScan(c) ==
    /\ pc.at = "py"
    /\ eater.curfile # None
    /\ Scan(c)

\* maker.add(py_strings(...), base_dir)
AddPy ==
    /\ pc.at = "py"
    /\ catalog' = POTMaker_add(catalog, py_strings(eater), pc.base_dir, ossep)
    /\ pc' = [pc EXCEPT !.at = IF pc.python_only THEN "write" ELSE "zcml"]
    /\ last' = [op |-> "add", strings |-> py_strings(eater),
                base_dir |-> pc.base_dir]
    /\ UNCHANGED <<eater, catalog2, output, ossep, nops, pot_header, fs, eater2>>

\* maker.add(zcml_strings(...), base_dir)
AddZcml(strings) ==
    /\ pc.at = "zcml"
    /\ catalog' = POTMaker_add(catalog, strings, pc.base_dir, ossep)
    /\ pc' = [pc EXCEPT !.at = "tal"]
    /\ last' = [op |-> "add", strings |-> strings, base_dir |-> pc.base_dir]
    /\ UNCHANGED <<eater, catalog2, output, ossep, nops, pot_header, fs, eater2>>

\* maker.add(tal_strings(...), base_dir)
AddTal(strings) ==
    /\ pc.at = "tal"
    /\ catalog' = POTMaker_add(catalog, strings, pc.base_dir, ossep)
    /\ pc' = [pc EXCEPT !.at = "write"]
    /\ last' = [op |-> "add", strings |-> strings, base_dir |-> pc.base_dir]
    /\ UNCHANGED <<eater, catalog2, output, ossep, nops, pot_header, fs, eater2>>

\* maker.write()
WriteMain ==
    /\ pc.at = "write"
    /\ output' = POTMaker_write(Val(pot_header), catalog)
    /\ fs' = fs \cup {"output_file"}
    /\ catalog' = AfterWrite(catalog)
    /\ pc' = [pc EXCEPT !.at = "done"]
    /\ last' = [op |-> "write"]
    /\ UNCHANGED <<eater, catalog2, ossep, nops, pot_header, eater2>>

Next ==
    \/ \E argv \in Argvs, base_dir \in BaseDirs : Main(argv, base_dir)
    \/ \E filename \in Paths : OpenFile(filename)
    \/ \E c \in PyCalls : PyScan(c)
    \/ AddPy
    \/ \E strings \in OtherStrings : AddZcml(strings)
    \/ \E strings \in OtherStrings : AddTal(strings)
    \/ WriteMain

Spec == Init /\ [][Next]_vars

(***************************************************************************)
(* py_strings: the files of a directory are tokenized into one TokenEater. *)
(***************************************************************************)
\* the marker calls of a file, the open parenthesis on the line lineno:
\*   one     _('a')
\*   two     _('a', 'b')
\*   lines   _(          with 'b', on the next line and 'a') on the one after
\*   nested  _(('a'), 'b')
\*   none    _(x)
Shapes == {"one", "two", "lines", "nested", "none"}
FileCalls == [lineno : 1..MaxLine, shape : Shapes]
NoCall == [lineno |-> 0, shape |-> "absent"]

\* the content of a file: an unmatched `)` at its start or not, a marker
\* call or none, and at its end the unfinished call _('c', or not
Contents == [pre : BOOLEAN, call : FileCalls \cup {NoCall}, open : BOOLEAN]

\* the tokens of a marker call
ShapeToks(c) ==
    LET l == c.lineno
        name == Tok("NAME", <<95>>, l)
    IN CASE c.shape = "one" ->
              <<name, Tok("OP", <<40>>, l), Tok("STRING", Literal(<<97>>), l),
                Tok("OP", <<41>>, l), Tok("NEWLINE", <<10>>, l)>>
         [] c.shape = "two" ->
              <<name, Tok("OP", <<40>>, l), Tok("STRING", Literal(<<97>>), l),
                Tok("OP", <<44>>, l), Tok("STRING", Literal(<<98>>), l),
                Tok("OP", <<41>>, l), Tok("NEWLINE", <<10>>, l)>>
         [] c.shape = "lines" ->
              <<name, Tok("OP", <<40>>, l), Tok("NL", <<10>>, l),
                Tok("STRING", Literal(<<98>>), l + 1),
                Tok("OP", <<44>>, l + 1), Tok("NL", <<10>>, l + 1),
                Tok("STRING", Literal(<<97>>), l + 2),
                Tok("OP", <<41>>, l + 2), Tok("NEWLINE", <<10>>, l + 2)>>
         [] c.shape = "nested" ->
              <<name, Tok("OP", <<40>>, l), Tok("OP", <<40>>, l),
                Tok("STRING", Literal(<<97>>), l), Tok("OP", <<41>>, l),
                Tok("OP", <<44>>, l), Tok("STRING", Literal(<<98>>), l),
                Tok("OP", <<41>>, l), Tok("NEWLINE", <<10>>, l)>>
         [] c.shape = "none" ->
              <<name, Tok("OP", <<40>>, l), Tok("NAME", <<120>>, l),
                Tok("OP", <<41>>, l), Tok("NEWLINE", <<10>>, l)>>
         [] c.shape = "absent" -> <<>>

\* the line of the unfinished call at the end of a file
OpenLine(content) ==
    IF content.call = NoCall THEN 1 ELSE content.call.lineno + 3

\* the tokens tokenize yields for the lines of a file, ENCODING first
LineToks(content) ==
    <<Tok("ENCODING", <<117, 116, 102, 45, 56>>, 0)>>
    \o (IF content.pre THEN <<Tok("OP", <<41>>, 1)>> ELSE <<>>)
    \o ShapeToks(content.call)
    \o (IF content.open
        THEN <<Tok("NAME", <<95>>, OpenLine(content)),
               Tok("OP", <<40>>, OpenLine(content)),
               Tok("STRING", Literal(<<99>>), OpenLine(content)),
               Tok("OP", <<44>>, OpenLine(content))>>
        ELSE <<>>)

\* tokenize raises TokenError: at the end of a file with a parenthesis
\* left open, and, in the tokenizer of Python 3.12 and later, at an
\* unmatched `)`; the tokenizer of Python 3.9 to 3.11 counts the unmatched
\* `)` against the open parenthesis and goes on
TokenError(content, tokenizer) ==
    \/ content.pre /\ tokenizer = "c"
    \/ ~content.pre /\ content.open

\* the tokens the eater is called with before the loop over them ends
Fed(content, tokenizer) ==
    IF content.pre /\ tokenizer = "c"
    THEN <<Tok("ENCODING", <<117, 116, 102, 45, 56>>, 0)>>
    ELSE IF TokenError(content, tokenizer)
    THEN LineToks(content) \o <<Tok("NL", <<10>>, OpenLine(content))>>
    ELSE LineToks(content)
         \o (IF content.open
             THEN <<Tok("NEWLINE", <<10>>, OpenLine(content))>> ELSE <<>>)
         \o <<Tok("ENDMARKER", <<>>, OpenLine(content) + 1)>>

\* one round of the loop of py_strings: the file is opened and its tokens
\* are fed to the eater; on TokenError the handler evaluates e[0], which
\* raises TypeError, and py_strings ends without a result
ScanFile(filename, content, tokenizer) ==
    /\ pc.at = "start"
    /\ filename \notin pc.opened
    /\ pc.tokenizer \in {None, Some(tokenizer)}
    /\ eater' = tokenize(set_filename(eater, filename),
                         Fed(content, tokenizer))
    /\ pc' = [pc EXCEPT !.opened = @ \cup {filename},
                        !.tokenizer = Some(tokenizer),
                        !.at = IF TokenError(content, tokenizer)
                               THEN "raised" ELSE "start"]
    /\ last' = [op |-> "file", filename |-> filename, content |-> content,
                tokenizer |-> tokenizer,
                error |-> TokenError(content, tokenizer)]
    /\ UNCHANGED <<catalog, catalog2, output, ossep, nops, pot_header, fs, eater2>>

\* return eater.getCatalog()
PyReturn ==
    /\ pc.at = "start"
    /\ pc' = [pc EXCEPT !.at = "returned"]
    /\ last' = [op |-> "return", catalog |-> getCatalog(eater)]
    /\ UNCHANGED <<eater, catalog, catalog2, output, ossep, nops, pot_header, fs, eater2>>

FilesNext ==
    \/ \E filename \in Paths, content \in Contents, tokenizer \in {"py", "c"} :
          ScanFile(filename, content, tokenizer)
    \/ PyReturn

SpecFiles == Init /\ [][FilesNext]_vars

(***************************************************************************)
(* A POTMaker is constructed, given mappings and written.                  *)
(***************************************************************************)
\* the state before the POTMaker is constructed
InitMake ==
    /\ eater = TokenEater
    /\ eater2 = TokenEater
    /\ catalog = <<>>
    /\ catalog2 = <<>>
    /\ output = <<>>
    /\ ossep \in {<<47>>, <<92>>}
    /\ pc = [at |-> "start", base_dir |-> None, python_only |-> FALSE,
             opened |-> {}, tokenizer |-> None]
    /\ pot_header = None
    /\ fs = {}
    /\ nops = 0
    /\ last = [op |-> "init"]

\* no header template, the template `h` and the template `n`
HeaderTemplates == {None, Some(<<104>>), Some(<<110>>)}

\* maker = POTMaker(output_fn, path, header_template)
Construct(header_template) ==
    /\ pc.at = "start"
    /\ pot_header = None
    /\ pot_header' = POTMaker_init(header_template).pot_header
    /\ catalog' = <<>>
    /\ pc' = [pc EXCEPT !.at = IF POTMaker_init(header_template).raised = ""
                               THEN "start" ELSE "raised"]
    /\ last' = [op |-> "construct", header_template |-> header_template,
                raised |-> POTMaker_init(header_template).raised]
    /\ UNCHANGED <<eater, catalog2, output, ossep, fs, nops, eater2>>

MakeNext ==
    \/ \E header_template \in HeaderTemplates : Construct(header_template)
    \/ pot_header # None /\ \E strings \in PairMappings : Add(strings, None)
    \/ pot_header # None /\ Write

SpecMake == InitMake /\ [][MakeNext]_vars

(***************************************************************************)
(* Texts with characters that are escaped are added and written.           *)
(***************************************************************************)
RECURSIVE Strings(_, _)
\* the strings over an alphabet of at most n characters
Strings(alphabet, n) ==
    IF n = 0 THEN {<<>>}
    ELSE Strings(alphabet, n - 1)
         \cup {Append(t, c) : t \in Strings(alphabet, n - 1), c \in alphabet}

\* texts of backslash, double quote, newline, tab, the control character
\* \001, and the letter n and the digit 1 that may follow a backslash
Texts == Strings({92, 34, 10, 9, 1, 110, 49}, MaxText) \ {<<>>}

\* maker.add({text: [('f', 1)]}) on a POTMaker that holds no entry
AddText(text) ==
    /\ catalog = <<>>
    /\ Add(<<[msgid |-> Message(text, None),
              locations |-> <<<<(<<102>>), 1>>>>]>>, None)

EscapeNext ==
    \/ \E text \in Texts : AddText(text)
    \/ Write

SpecEscape == Init /\ [][EscapeNext]_vars

(***************************************************************************)
(* Entries that carry comments are given further occurrences.              *)
(***************************************************************************)
\* dicts with the one key 'a' or 'b' and one occurrence, passed once or
\* twice
NoteMappings ==
    {<<[msgid |-> Message(text, None), locations |-> ls]>> :
        text \in {<<97>>, <<98>>},
        ls \in {<<l>> : l \in Locations} \cup {<<l, l>> : l \in Locations}}

\* maker.add(strings)
NoteAdd(strings) ==
    /\ nops < MaxNotes
    /\ catalog' = POTMaker_add(catalog, strings, None, ossep)
    /\ nops' = nops + 1
    /\ last' = [op |-> "add", strings |-> strings, base_dir |-> None]
    /\ UNCHANGED <<eater, catalog2, output, ossep, pc, pot_header, fs, eater2>>

\* maker.catalog[msgid].addComment('# c')
NoteComment(i) ==
    /\ i \in 1..Len(catalog)
    /\ nops < MaxNotes
    /\ catalog' = [catalog EXCEPT ![i] = addComment(@, <<35, 32, 99>>)]
    /\ nops' = nops + 1
    /\ last' = [op |-> "comment", entry |-> i]
    /\ UNCHANGED <<eater, catalog2, output, ossep, pc, pot_header, fs, eater2>>

NotesNext ==
    \/ \E strings \in NoteMappings : NoteAdd(strings)
    \/ \E i \in 1..2 : NoteComment(i)
    \/ Write

SpecNotes == Init /\ [][NotesNext]_vars

(***************************************************************************)
(* Entries of two POTMakers, some with comments, are compared.             *)
(***************************************************************************)
\* maker2.add(strings) on the second POTMaker
NoteAdd2(strings) ==
    /\ nops < MaxNotes
    /\ catalog2' = POTMaker_add(catalog2, strings, None, ossep)
    /\ nops' = nops + 1
    /\ last' = [op |-> "add2", strings |-> strings, base_dir |-> None]
    /\ UNCHANGED <<eater, catalog, output, ossep, pc, pot_header, fs, eater2>>

OrderNext ==
    \/ \E strings \in NoteMappings : NoteAdd(strings)
    \/ \E strings \in NoteMappings : NoteAdd2(strings)
    \/ \E i \in 1..2 : NoteComment(i)

SpecOrder == Init /\ [][OrderNext]_vars

(***************************************************************************)
(* Two scans of the same sightings in two orders.                          *)
(***************************************************************************)
\* a sighting: a marker call of PyCalls in a file
Sightings == [filename : Paths, call : PyCalls]

\* the lists of at most MaxScans sightings
SightingLists ==
    UNION {[1..n -> Sightings] : n \in 0..MaxScans}

\* the orders the sightings of a list can be scanned in
Orders(l) ==
    {[i \in 1..Len(l) |-> l[p[i]]] :
       p \in {q \in [1..Len(l) -> 1..Len(l)] :
                \A i, j \in 1..Len(l) : q[i] = q[j] => i = j}}

RECURSIVE scan(_, _)
\* the loop of py_strings over the files of the sightings of a list
scan(e, l) ==
    IF l = <<>> THEN e
    ELSE scan(tokenize(set_filename(e, Head(l).filename),
                       CallToks(Head(l).call)),
              Tail(l))

\* two fresh eaters scan the sightings of a list, each in an order
TwoScans(first, second) ==
    /\ last.op = "init"
    /\ eater' = scan(eater, first)
    /\ eater2' = scan(eater2, second)
    /\ last' = [op |-> "scans", first |-> first, second |-> second]
    /\ UNCHANGED <<catalog, catalog2, output, ossep, pc, pot_header, fs, nops>>

ScansNext ==
    \E first \in SightingLists : \E second \in Orders(first) :
       TwoScans(first, second)

SpecScans == Init /\ [][ScansNext]_vars

(***************************************************************************)
(* The eater is called with one token after the other.                     *)
(***************************************************************************)
\* the tokens _, mapping, x, (, ), the comma, the operator +, the string
\* literals 'a' and 'b', and the line break inside parentheses
Tokens ==
    {Tok(tt[1], tt[2], l) :
       tt \in {<<"NAME", (<<95>>)>>,
               <<"NAME", (<<109, 97, 112, 112, 105, 110, 103>>)>>,
               <<"NAME", (<<120>>)>>,
               <<"OP", (<<40>>)>>, <<"OP", (<<41>>)>>, <<"OP", (<<44>>)>>,
               <<"OP", (<<43>>)>>,
               <<"STRING", Literal(<<97>>)>>, <<"STRING", Literal(<<98>>)>>,
               <<"NL", (<<10>>)>>},
       l \in 1..MaxLine}

\* eater(*t) for the next token of the stream
Feed(t) ==
    /\ nops < MaxToks
    /\ eater' = call(eater, t)
    /\ nops' = nops + 1
    /\ last' = [op |-> "token", token |-> t]
    /\ UNCHANGED <<eater2, catalog, catalog2, output, ossep, pc, pot_header, fs>>

TokensNext == \E t \in Tokens : Feed(t)

SpecTokens == Init /\ [][TokensNext]_vars

(***************************************************************************)
(* py_strings with verify_domain: the module of each file is imported and  *)
(* its `_` is asked for its domain before the file is scanned.             *)
(***************************************************************************)
\* the domains 'zope' and 'x'
Domains == {<<122, 111, 112, 101>>, <<120>>}

\* what __import__(module_name) and getattr(module, '_', None) give for a
\* file: the import raises ImportError or another exception, or gives a
\* module without `_`, with a `_` that is false or true and has no _domain,
\* or with a `_` that has a _domain
Module(import, mf, domain) == [import |-> import, mf |-> mf, _domain |-> domain]

Modules ==
    {Module("ImportError", "absent", None), Module("error", "absent", None),
     Module("ok", "absent", None), Module("ok", "false", None),
     Module("ok", "true", None)}
    \cup {Module("ok", "true", Some(d)) : d \in Domains}

\* the files hold one marker call each, on their first line
SourceCalls == {c \in PyCalls : c.lineno = 1 /\ Len(c.args) = 1}

\* the import raises an exception that `except ImportError` lets through
import_raises(verify_domain, module) ==
    verify_domain /\ module.import = "error"

\* domain_mismatch where a `_` without _domain is taken for another domain
domain_mismatch_strict(verify_domain, module, domain) ==
    IF verify_domain
    THEN IF module.import = "ImportError" THEN FALSE
         ELSE IF module._domain # None
         THEN Val(module._domain) # domain
         ELSE module.mf # "absent"
    ELSE FALSE

\* `continue` is reached: the domain of the module's `_` is not the one
\* asked for
domain_mismatch(verify_domain, module, domain) ==
    IF verify_domain
    THEN IF module.import = "ImportError" THEN FALSE
         ELSE IF module._domain # None
         THEN Val(module._domain) # domain
         ELSE FALSE
    ELSE FALSE

\* what is printed to sys.stderr for the file
stderr(verify_domain, module) ==
    IF verify_domain
    THEN IF module.import = "ImportError" THEN "Could not import"
         ELSE IF module._domain # None THEN ""
         ELSE IF module.mf = "true" THEN "Could not figure out the i18n domain"
         ELSE ""
    ELSE ""

\* py_strings(dir, domain, verify_domain=...) is called
VerifyCall(domain, verify_domain) ==
    /\ pc.at = "start"
    /\ last.op = "init"
    /\ eater' = TokenEater
    /\ pc' = [at |-> "files", domain |-> domain,
              verify_domain |-> verify_domain, files |-> <<>>]
    /\ last' = [op |-> "py_strings", domain |-> domain,
                verify_domain |-> verify_domain]
    /\ UNCHANGED <<catalog, catalog2, output, ossep, nops, pot_header, fs, eater2>>

\* one round of the loop of py_strings over the file names
VerifyFile(filename, module, c) ==
    /\ pc.at = "files"
    /\ \A i \in 1..Len(pc.files) : pc.files[i].filename # filename
    /\ eater' = IF \/ import_raises(pc.verify_domain, module)
                   \/ domain_mismatch(pc.verify_domain, module, pc.domain)
                THEN eater
                ELSE tokenize(set_filename(eater, filename), CallToks(c))
    /\ pc' = [pc EXCEPT !.files = Append(@, [filename |-> filename,
                                             module |-> module, call |-> c]),
                        !.at = IF import_raises(pc.verify_domain, module)
                               THEN "raised" ELSE "files"]
    /\ last' = [op |-> "file", filename |-> filename, module |-> module,
                stderr |-> stderr(pc.verify_domain, module)]
    /\ UNCHANGED <<catalog, catalog2, output, ossep, nops, pot_header, fs, eater2>>

\* return eater.getCatalog()
VerifyReturn ==
    /\ pc.at = "files"
    /\ pc' = [pc EXCEPT !.at = "returned"]
    /\ last' = [op |-> "return", catalog |-> py_strings(eater)]
    /\ UNCHANGED <<eater, catalog, catalog2, output, ossep, nops, pot_header, fs, eater2>>

VerifyNext ==
    \/ \E domain \in Domains, verify_domain \in BOOLEAN :
          VerifyCall(domain, verify_domain)
    \/ \E filename \in Paths, module \in Modules, c \in SourceCalls :
          VerifyFile(filename, module, c)
    \/ VerifyReturn

SpecVerify == Init /\ [][VerifyNext]_vars

(***************************************************************************)
(* tal_strings: the page templates of a directory are interpreted with one *)
(* POEngine, whose catalog holds the messages found under their domain.    *)
(***************************************************************************)
\* 'default', the domain the engine files a message under when the
\* template declares none
default_domain == <<100, 101, 102, 97, 117, 108, 116>>

\* the domains 't' and 'x' that a template declares and a caller asks for
TalDomains == {<<116>>, <<120>>}

\* the entry POEngine makes for a message: engine.catalog[domain][msgid]
\* gets the location (filename, (line, column))
Found(filename, declared, msgid, line) ==
    [domain |-> IF declared = None THEN default_domain ELSE Val(declared),
     msgid |-> msgid, filename |-> filename, position |-> <<line, 0>>]

\* the keys of engine.catalog
EngineDomains(engine) == {engine[i].domain : i \in 1..Len(engine)}

\* the keys of engine.catalog[domain]
EngineKeys(engine, domain) ==
    {engine[i].msgid : i \in {j \in 1..Len(engine) : engine[j].domain = domain}}

RECURSIVE EngineLocations(_, _, _)
\* engine.catalog[domain][msgid] with (loc[0], loc[1][0]) for each location
EngineLocations(engine, domain, msgid) ==
    IF engine = <<>> THEN <<>>
    ELSE (IF Head(engine).domain = domain /\ Head(engine).msgid = msgid
          THEN <<<<Head(engine).filename, Head(engine).position[1]>>>>
          ELSE <<>>)
         \o EngineLocations(Tail(engine), domain, msgid)

\* what tal_strings returns once the templates are interpreted: a dict
\* msgid -> list of (filename, line)
tal_strings(engine, domain, include_default_domain) ==
    IF domain \notin EngineDomains(engine) THEN <<>>
    ELSE LET own == EngineKeys(engine, domain)
             dflt == IF include_default_domain
                     THEN EngineKeys(engine, default_domain) ELSE {}
         IN [msgid \in own \cup dflt |->
               IF msgid \in dflt
               THEN EngineLocations(engine, default_domain, msgid)
               ELSE EngineLocations(engine, domain, msgid)]

\* tal_strings(dir, domain, include_default_domain) is called
TalCall(domain, include_default_domain) ==
    /\ pc.at = "start"
    /\ last.op = "init"
    /\ pc' = [at |-> "templates", domain |-> domain,
              include_default_domain |-> include_default_domain,
              engine |-> <<>>]
    /\ last' = [op |-> "tal_strings", domain |-> domain,
                include_default_domain |-> include_default_domain]
    /\ UNCHANGED <<eater, eater2, catalog, catalog2, output, ossep, nops,
                   pot_header, fs>>

\* one round of the loop over the templates: the template is parsed and
\* interpreted, and its message is filed in the engine
Template(filename, declared, msgid, line) ==
    /\ pc.at = "templates"
    /\ \A i \in 1..Len(pc.engine) : pc.engine[i].filename # filename
    /\ pc' = [pc EXCEPT !.engine =
                          Append(@, Found(filename, declared, msgid, line))]
    /\ last' = [op |-> "template", filename |-> filename]
    /\ UNCHANGED <<eater, eater2, catalog, catalog2, output, ossep, nops,
                   pot_header, fs>>

\* the catalog of the domain is taken from the engine and returned
TalReturn ==
    /\ pc.at = "templates"
    /\ pc' = [pc EXCEPT !.at = "returned"]
    /\ last' = [op |-> "return",
                strings |-> tal_strings(pc.engine, pc.domain,
                                        pc.include_default_domain)]
    /\ UNCHANGED <<eater, eater2, catalog, catalog2, output, ossep, nops,
                   pot_header, fs>>

TalNext ==
    \/ \E domain \in TalDomains, include_default_domain \in BOOLEAN :
          TalCall(domain, include_default_domain)
    \/ \E filename \in Paths, declared \in {None} \cup {Some(d) : d \in TalDomains},
          msgid \in {<<97>>, <<98>>}, line \in 1..MaxLine :
          Template(filename, declared, msgid, line)
    \/ TalReturn

SpecTal == Init /\ [][TalNext]_vars

(***************************************************************************)
(* The command line of main: getopt takes the options apart, then the loop *)
(* of main goes through them in their order.                               *)
(***************************************************************************)
\* an option of the command line with its argument; the argument of -p and
\* -s is a path that exists or is missing
Option(opt, arg) == [opt |-> opt, arg |-> arg]

Options ==
    {Option("-h", ""), Option("--help", ""), Option("-d", "x"),
     Option("--domain", "x"), Option("-i", "x"),
     Option("-s", "exists"), Option("-s", "missing"),
     Option("-p", "exists"), Option("-p", "missing"),
     Option("-e", ""), Option("--exclude-default-domain", ""),
     Option("-o", "dir"), Option("-x", "dir"), Option("--python-only", "")}

CommandLines == UNION {[1..n -> Options] : n \in 0..MaxArgs}

\* the options getopt is told of: 'hd:s:i:p:o:x:' and the long options
shortopts == {"-h", "-d", "-s", "-i", "-p", "-o", "-x"}
longopts == {"--help", "--domain", "--site_zcml", "--path", "--python-only"}

\* getopt.getopt raises getopt.error: an option it was not told of
getopt_error(argv) ==
    \E i \in 1..Len(argv) : argv[i].opt \notin shortopts \cup longopts

\* what main has set before the loop over the options
Defaults ==
    [status |-> None, stderr |-> "", path |-> FALSE, site_zcml |-> FALSE,
     include_default_domain |-> TRUE, python_only |-> FALSE]

\* one round of the loop over the options
option(st, o) ==
    IF o.opt \in {"-h", "--help"}
    THEN [st EXCEPT !.status = Some(0), !.stderr = "USAGE"]
    ELSE IF o.opt \in {"-d", "--domain"} THEN st
    ELSE IF o.opt \in {"-s", "--site_zcml"}
    THEN IF o.arg = "missing"
         THEN [st EXCEPT !.status = Some(1),
                         !.stderr = "site.zcml does not exist"]
         ELSE [st EXCEPT !.site_zcml = TRUE]
    ELSE IF o.opt \in {"-e", "--exclude-default-domain"}
    THEN [st EXCEPT !.include_default_domain = FALSE]
    ELSE IF o.opt = "-o" THEN st
    ELSE IF o.opt = "-x" THEN st
    ELSE IF o.opt = "--python-only" THEN [st EXCEPT !.python_only = TRUE]
    ELSE IF o.opt \in {"-p", "--path"}
    THEN IF o.arg = "missing"
         THEN [st EXCEPT !.status = Some(1), !.stderr = "path does not exist"]
         ELSE [st EXCEPT !.path = TRUE]
    ELSE st

RECURSIVE options(_, _)
\* the loop over the options, which usage leaves by sys.exit
options(st, opts) ==
    IF opts = <<>> \/ st.status # None THEN st
    ELSE options(option(st, Head(opts)), Tail(opts))

\* main up to the printing of its settings: the exit status and the
\* message of usage, or the settings the extraction runs with
main(argv) ==
    IF getopt_error(argv)
    THEN [Defaults EXCEPT !.status = Some(1), !.stderr = "not recognized"]
    ELSE LET st == options(Defaults, argv)
         IN IF st.status # None THEN st
            ELSE IF ~st.path
            THEN [st EXCEPT !.status = Some(1),
                            !.stderr = "provide the module search path"]
            ELSE IF ~st.site_zcml
            THEN [st EXCEPT !.status = Some(1),
                            !.stderr = "provide the location of the root ZCML file"]
            ELSE st

\* main(argv) is called
MainArgs(argv) ==
    /\ pc.at = "start"
    /\ last.op = "init"
    /\ pc' = [pc EXCEPT !.at = IF main(argv).status # None THEN "exit" ELSE "py",
                        !.python_only = main(argv).python_only]
    /\ last' = [op |-> "main", argv |-> argv, stderr |-> main(argv).stderr,
                status |-> main(argv).status,
                include_default_domain |-> main(argv).include_default_domain]
    /\ UNCHANGED <<eater, eater2, catalog, catalog2, output, ossep, nops,
                   pot_header, fs>>

ArgsNext == \E argv \in CommandLines : MainArgs(argv)

SpecArgs == Init /\ [][ArgsNext]_vars

(***************************************************************************)
(* Properties of the scanner.                                              *)
(***************************************************************************)
\* the argument is a string literal
IsStr(arg) == \A i \in 1..Len(arg) : arg[i].ttype = "STRING"

\* the text between the quotes of a one-token string-literal argument
LitText(arg) == SubSeq(arg[1].tstring, 2, Len(arg[1].tstring) - 1)

\* the set of the elements of a list
Range(l) == {l[i] : i \in 1..Len(l)}

\* the texts that are keys of the scanner's messages
ScannedTexts(e) == {e.messages[i].msgid.text : i \in 1..Len(e.messages)}

\* the scanner holds the key with this text and this default
HasKey(e, text, default) ==
    \E i \in 1..Len(e.messages) : e.messages[i].msgid = Message(text, default)

\* C1: a marker call whose first argument is a non-empty string literal T
\* and whose second argument is a string literal D records the key T with
\* the default D (D = '' included), whatever follows the second argument.
\* Stated for a text T that is not a key yet, so that the key recorded is
\* the one of this call.
C1_LiteralDefaultRecorded ==
    [][(/\ last'.op = "scan"
        /\ Len(last'.call.args) >= 2
        /\ IsStr(last'.call.args[1])
        /\ IsStr(last'.call.args[2])
        /\ LitText(last'.call.args[1]) # <<>>
        /\ LitText(last'.call.args[1]) \notin ScannedTexts(eater))
       => HasKey(eater', LitText(last'.call.args[1]),
                 Some(LitText(last'.call.args[2])))]_vars

\* a marker call with exactly one argument, a string literal
OneLiteral(c) == Len(c.args) = 1 /\ IsStr(c.args[1])

\* C2 as stated: a marker call with exactly one string-literal argument T,
\* or with T followed by mapping=..., records the key T with the default
\* None and the occurrence of the call.
C2_Original ==
    [][(last'.op = "scan" /\ OneLiteral(last'.call))
       => \E i \in 1..Len(eater'.messages) :
            /\ eater'.messages[i].msgid =
                 Message(LitText(last'.call.args[1]), None)
            /\ <<eater.curfile, last'.call.lineno>>
                 \in Range(eater'.messages[i].locations)]_vars

\* C2, amended: when T is not empty, the call adds exactly the occurrence
\* (current file, line of the call) to the one key with text T, and changes
\* nothing else; a key created by the call has the default None, and a key
\* that existed keeps its default.
C2_SingleLiteral ==
    [][(/\ last'.op = "scan"
        /\ OneLiteral(last'.call)
        /\ LitText(last'.call.args[1]) # <<>>)
       => LET T == LitText(last'.call.args[1])
              loc == <<eater.curfile, last'.call.lineno>>
              old == eater.messages
              new == eater'.messages
          IN IF T \in ScannedTexts(eater)
             THEN /\ Len(new) = Len(old)
                  /\ \A i \in 1..Len(old) :
                       /\ new[i].msgid = old[i].msgid
                       /\ IF old[i].msgid.text = T
                          THEN /\ Range(new[i].locations)
                                    = Range(old[i].locations) \cup {loc}
                               /\ Cardinality(Range(new[i].locations))
                                    = Len(new[i].locations)
                          ELSE new[i] = old[i]
             ELSE new = Append(old, [msgid |-> Message(T, None),
                                     locations |-> <<loc>>])]_vars

\* a call with the one literal 'a' followed by mapping=... has been
\* scanned, and the key 'a' is held with the default None
C2_Witness ==
    /\ last.op = "scan"
    /\ OneLiteral(last.call)
    /\ last.call.tail = "mapping"
    /\ LitText(last.call.args[1]) = <<97>>
    /\ HasKey(eater, <<97>>, None)

\* C11: in a marker call whose first argument is a non-empty literal T and
\* whose third argument is a string literal, the third argument never
\* becomes the default: a key created by the call carries the literal of
\* the second argument when that is a string literal ('' included), and no
\* default otherwise.
C11_ThirdArgumentIgnored ==
    [][(/\ last'.op = "scan"
        /\ Len(last'.call.args) = 3
        /\ IsStr(last'.call.args[1])
        /\ LitText(last'.call.args[1]) # <<>>
        /\ IsStr(last'.call.args[3])
        /\ LitText(last'.call.args[1]) \notin ScannedTexts(eater))
       => HasKey(eater', LitText(last'.call.args[1]),
                 IF IsStr(last'.call.args[2])
                 THEN Some(LitText(last'.call.args[2]))
                 ELSE None)]_vars

\* no argument of the call holds a string literal
NoLiteral(c) == \A k \in 1..Len(c.args) : ~IsStr(c.args[k])

\* C15: a marker call without any string literal before its finalizing
\* token leaves the recorded keys and occurrences as they were, and the
\* scanner waiting for the next marker.
C15_EmptyCallDropped ==
    [][(last'.op = "scan" /\ NoLiteral(last'.call))
       => /\ eater'.messages = eater.messages
          /\ eater'.state = "waiting"]_vars

\* a call _(x, mapping=x) has been scanned after a call that recorded a
\* key, and the scanner holds that one key and waits
C15_Witness ==
    /\ last.op = "scan"
    /\ nops = 2
    /\ last.call.args = <<NameArg>>
    /\ last.call.tail = "mapping"
    /\ Len(eater.messages) = 1
    /\ eater.state = "waiting"

\* the token is the marker name
IsMarker(t) == t.ttype = "NAME" /\ t.tstring = <<95>>

\* the token is the open parenthesis
IsOpen(t) == t.ttype = "OP" /\ t.tstring = <<40>>

\* the token finalizes a call: the close parenthesis or `mapping`
IsFinal(t) ==
    \/ t.ttype = "OP" /\ t.tstring = <<41>>
    \/ t.ttype = "NAME" /\ t.tstring = <<109, 97, 112, 112, 105, 110, 103>>

\* C23: the scanner is waiting, has seen the marker or has seen the open
\* parenthesis; a token takes it from waiting to the second state when it
\* is the marker, from the second state to the third when it is the open
\* parenthesis and back to waiting otherwise, from the third state to
\* waiting when it is the close parenthesis or `mapping`, and leaves the
\* state alone otherwise; keys and occurrences change only on the step
\* from the third state to waiting.
C23_Transitions ==
    /\ eater.state \in {"waiting", "keywordseen", "openseen"}
    /\ [][last'.op = "token"
          => /\ eater'.state =
                  (CASE eater.state = "waiting" ->
                          IF IsMarker(last'.token)
                          THEN "keywordseen" ELSE "waiting"
                     [] eater.state = "keywordseen" ->
                          IF IsOpen(last'.token)
                          THEN "openseen" ELSE "waiting"
                     [] eater.state = "openseen" ->
                          IF IsFinal(last'.token)
                          THEN "waiting" ELSE "openseen")
             /\ eater'.messages # eater.messages
                  => (eater.state = "openseen" /\ eater'.state = "waiting")]_vars

\* the marker has been named twice in a row: the scanner is waiting again
C23_Witness ==
    /\ nops = 2
    /\ last.op = "token"
    /\ IsMarker(last.token)
    /\ eater.state = "waiting"

\* the text between the quotes of a string-literal token
TokText(t) == SubSeq(t.tstring, 2, Len(t.tstring) - 1)

IsComma(t) == t.ttype = "OP" /\ t.tstring = <<44>>

\* C25: after the open parenthesis a string literal puts its text at the
\* end of the text collected for the argument, which a comma commits as
\* the text of the message when none is committed and a finalizing token
\* records as the key when none is committed; a token that is no string
\* literal, comma, close parenthesis or `mapping` changes neither the
\* buffer nor the text nor the default.
C25_LiteralsConcatenated ==
    [][(last'.op = "token" /\ eater.state = "openseen")
       => \A t \in {last'.token} :
            /\ t.ttype = "STRING"
                 => /\ join(eater'.data) = join(eater.data) \o TokText(t)
                    /\ eater'.msgid = eater.msgid
                    /\ eater'.default = eater.default
            /\ (IsComma(t) /\ eater.msgid = <<>>)
                 => eater'.msgid = join(eater.data)
            /\ (IsFinal(t) /\ eater.msgid = <<>> /\ eater.data # <<>>)
                 => HasKey(eater', join(eater.data), None)
            /\ (t.ttype # "STRING" /\ ~IsComma(t) /\ ~IsFinal(t))
                 => /\ eater'.data = eater.data
                    /\ eater'.msgid = eater.msgid
                    /\ eater'.default = eater.default]_vars

\* two string literals in a row and the close parenthesis have recorded
\* the key 'ab'
C25_Witness ==
    /\ last.op = "token" /\ last.token.ttype = "OP" /\ last.token.tstring = <<41>>
    /\ nops = 5
    /\ eater.state = "waiting"
    /\ HasKey(eater, <<97, 98>>, None)

\* the eater after a call has been scanned on its own, by a fresh eater
\* that has been given the file name
Alone(curfile, c) ==
    tokenize([TokenEater EXCEPT !.curfile = curfile], CallToks(c))

\* C24: what a marker call records depends on its own tokens only: it
\* records what the same call records when a fresh scanner scans it, the
\* same text and occurrence and, for a new key, the same default, whatever
\* buffer, text and default the calls before it have left.
C24_PerCallReset ==
    [][last'.op = "scan"
       => \A alone \in {Alone(eater.curfile, last'.call).messages},
             old \in {eater.messages}, new \in {eater'.messages} :
             IF alone = <<>>
             THEN new = old
             ELSE IF alone[1].msgid.text \in ScannedTexts(eater)
             THEN /\ Len(new) = Len(old)
                  /\ \A i \in 1..Len(old) :
                       /\ new[i].msgid = old[i].msgid
                       /\ Range(new[i].locations) =
                            Range(old[i].locations)
                            \cup (IF old[i].msgid.text = alone[1].msgid.text
                                  THEN Range(alone[1].locations) ELSE {})
             ELSE new = Append(old, alone[1])]_vars

\* a call has recorded the key 'a' with the default 'b', and the call
\* _('b') after it has recorded the key 'b' without a default
C24_Witness ==
    /\ last.op = "scan"
    /\ nops = 2
    /\ last.call.args = <<StrArg(<<98>>)>>
    /\ last.call.tail = "close"
    /\ Len(eater.messages) = 2
    /\ eater.messages[1].msgid = Message(<<97>>, Some(<<98>>))
    /\ eater.messages[2].msgid = Message(<<98>>, None)

(***************************************************************************)
(* Properties of py_strings.                                               *)
(***************************************************************************)
\* the pairs (text, occurrence) the scanner holds
Occurrences(e) ==
    UNION {{<<e.messages[i].msgid.text, loc>> :
              loc \in Range(e.messages[i].locations)} :
             i \in 1..Len(e.messages)}

\* the values of the string literals among the tokens of a file
FileTexts(content) ==
    {safe_eval(LineToks(content)[k].tstring) :
       k \in {j \in 1..Len(LineToks(content)) :
                LineToks(content)[j].ttype = "STRING"}}

\* the lines of the open parentheses that follow a marker in a file
FileLines(content) ==
    {LineToks(content)[k].lineno :
       k \in {j \in 2..Len(LineToks(content)) :
                /\ LineToks(content)[j].tstring = <<40>>
                /\ LineToks(content)[j - 1].tstring = <<95>>}}

\* C12: the close parenthesis of a nested parenthesised expression does
\* not finalize the marker call: the call _(('a'), 'b'), scanned from the
\* waiting state when 'a' is no key yet, records 'a' with the default 'b',
\* the literal that follows the nested close parenthesis.
C12_MatchingCloseFinalizes ==
    [][(/\ last'.op = "file"
        /\ ~last'.error
        /\ ~last'.content.pre
        /\ last'.content.call.shape = "nested"
        /\ eater.state = "waiting"
        /\ <<97>> \notin ScannedTexts(eater))
       => HasKey(eater', <<97>>, Some(<<98>>))]_vars

\* C13: every occurrence recorded while a file is scanned names that file,
\* the line of a marker call of that file, and a key whose text is a
\* string literal of that file; a key created meanwhile has no default or
\* a string literal of that file as its default.
C13_PerFileIsolation ==
    [][last'.op = "file"
       => /\ \A o \in Occurrences(eater') \ Occurrences(eater) :
                /\ o[2][1] = Some(last'.filename)
                /\ o[2][2] \in FileLines(last'.content)
                /\ o[1] \in FileTexts(last'.content)
          /\ \A i \in 1..Len(eater'.messages) :
                (/\ eater'.messages[i].msgid.text \notin ScannedTexts(eater)
                 /\ eater'.messages[i].msgid.default # None)
                => Val(eater'.messages[i].msgid.default)
                     \in FileTexts(last'.content)]_vars

C16_TokenErrorRecovered ==
    [][(last'.op = "file" /\ last'.error) => pc'.at = "start"]_vars

(***************************************************************************)
(* Properties of the catalog.                                              *)
(***************************************************************************)
\* the texts that are keys of a catalog
CatalogTexts(cat) == {cat[i].msgid.text : i \in 1..Len(cat)}

\* the locations stored for a text, none when the text is no key
Stored(cat, text) ==
    UNION {cat[i]._locations : i \in {j \in 1..Len(cat) : cat[j].msgid.text = text}}

\* the file path an occurrence path is stored under: the path without the
\* leading base_dir if it starts with it, and os.sep replaced by '/'
StoredPath(path, base_dir, sep) ==
    LET rests == {SubSeq(path, k, Len(path)) : k \in 1..(Len(path) + 1)}
        cut == IF base_dir # None /\ \E r \in rests : path = Val(base_dir) \o r
               THEN CHOOSE r \in rests : path = Val(base_dir) \o r
               ELSE path
    IN [i \in 1..Len(cut) |-> IF cut[i] = sep[1] THEN 47 ELSE cut[i]]

\* the occurrences a mapping passes for a text
Passed(strings, text) ==
    UNION {Range(strings[i].locations) :
             i \in {j \in 1..Len(strings) : strings[j].msgid.text = text}}

\* the line `#: file:line` of a location
LocLine(loc) == <<35, 58, 32>> \o loc[1] \o <<58>> \o Decimal(loc[2]) \o <<10>>

\* the line `msgid "text"` of a text without newlines
MsgidLine(text) ==
    <<109, 115, 103, 105, 100, 32, 34>> \o escape(text) \o <<34, 10>>

\* the place of the msgid line of a text in the output (0 when not written)
Pos(text) ==
    IF \E i \in 1..Len(output) : output[i] = MsgidLine(text)
    THEN CHOOSE i \in 1..Len(output) : output[i] = MsgidLine(text)
    ELSE 0

\* the chunks written for the entry of a text: those behind the blank line
\* (or the header) before its msgid line, up to its own blank line
Block(text) ==
    LET m == Pos(text)
        start == CHOOSE j \in 1..(m - 1) :
                    /\ j = 1 \/ output[j] = <<10>>
                    /\ \A k \in (j + 1)..(m - 1) : output[k] # <<10>>
    IN SubSeq(output, start + 1, m + 2)

\* C3: add(M) repeated leaves every entry's stored locations as they are
\* after the first add(M), and write emits exactly one `#:` line for every
\* stored location of an entry, however often it was added.
C3_IdempotentMerge ==
    /\ last.op = "add" =>
         LET twice == POTMaker_add(catalog, last.strings, last.base_dir, ossep)
         IN /\ Len(twice) = Len(catalog)
            /\ \A i \in 1..Len(catalog) :
                 /\ twice[i].msgid = catalog[i].msgid
                 /\ twice[i]._locations = catalog[i]._locations
    /\ last.op = "write" =>
         \A i \in 1..Len(catalog) :
            LET B == Block(catalog[i].msgid.text)
                marks == {k \in 1..Len(B) :
                            Len(B[k]) > 3 /\ SubSeq(B[k], 1, 3) = <<35, 58, 32>>}
            IN /\ Pos(catalog[i].msgid.text) # 0
               /\ \A loc \in catalog[i]._locations :
                    Cardinality({k \in marks : B[k] = LocLine(loc)}) = 1
               /\ Cardinality(marks) = Cardinality(catalog[i]._locations)

\* two adds have been made, the last one passing one location twice for
\* the text 'a', and the entry of 'a' stores that location once
C3_Witness ==
    /\ last.op = "add"
    /\ nops = 2
    /\ Len(last.strings) = 1
    /\ last.strings[1].msgid.text = <<97>>
    /\ Len(last.strings[1].locations) = 2
    /\ last.strings[1].locations[1] = last.strings[1].locations[2]
    /\ Cardinality(Stored(catalog, <<97>>)) = 1

\* C4: an add leaves, for every non-empty text, the locations stored before
\* together with the occurrences it passes for that text (base dir
\* stripped, separator normalised), and no other operation changes them: an
\* entry holds exactly the union of the occurrences passed.
C4_UnionOfOccurrences ==
    [][\A text \in CatalogTexts(catalog) \cup CatalogTexts(catalog')
                     \cup {<<97>>, <<98>>} :
          Stored(catalog', text) =
            Stored(catalog, text)
            \cup (IF last'.op = "add" /\ text # <<>>
                  THEN {<<StoredPath(loc[1], last'.base_dir, ossep), loc[2]>> :
                           loc \in Passed(last'.strings, text)}
                  ELSE {})]_vars

\* the second add passes a new location for a text that has an entry, and
\* the entry holds the earlier location and the new one
C4_Witness ==
    /\ last.op = "add"
    /\ nops = 2
    /\ Len(last.strings) = 1
    /\ last.strings[1].msgid.text = <<97>>
    /\ Len(last.strings[1].locations) = 1
    /\ Cardinality(Stored(catalog, <<97>>)) = 2

\* s < t for two tuples of locations: they differ first at a place where s
\* has ended or holds the smaller location
TupleBefore(s, t) ==
    \E k \in 1..Len(t) :
       /\ \A j \in 1..(k - 1) : j <= Len(s) /\ s[j] = t[j]
       /\ \/ k > Len(s)
          \/ k <= Len(s) /\ s[k] # t[k] /\ LocLess(s[k], t[k])

\* the entry a comes before the entry b in the order (locations, text)
KeyBefore(a, b) ==
    \/ TupleBefore(sorted(a._locations), sorted(b._locations))
    \/ /\ sorted(a._locations) = sorted(b._locations)
       /\ StrLess(a.msgid.text, b.msgid.text)

\* C5: write emits every entry, in ascending order of (sorted location
\* tuple, text): the entry with the smaller location tuple comes first,
\* the text deciding only between equal location tuples.
C5_WriteOrder ==
    last.op = "write" =>
      \A i, j \in 1..Len(catalog) :
         /\ Pos(catalog[i].msgid.text) # 0
         /\ KeyBefore(catalog[i], catalog[j])
              => Pos(catalog[i].msgid.text) < Pos(catalog[j].msgid.text)

\* written: the entry 'b' before the entry 'a', its location tuple being
\* the smaller one
C5_Witness ==
    /\ last.op = "write"
    /\ \E i, j \in 1..Len(catalog) :
          /\ catalog[i].msgid.text = <<98>>
          /\ catalog[j].msgid.text = <<97>>
          /\ catalog[i]._locations # {}
          /\ TupleBefore(sorted(catalog[i]._locations),
                         sorted(catalog[j]._locations))
          /\ 0 < Pos(<<98>>)
          /\ Pos(<<98>>) < Pos(<<97>>)

\* the number of the locations of an entry below loc
Rank(entry, loc) ==
    Cardinality({x \in entry._locations : LocLess(x, loc)})

\* C7: the chunks written for an entry are, in this order: its comments if
\* it has any; one `#: file:line` line per stored location, ascending; the
\* `#. Default:` line if and only if the default is not None ('' gives
\* `#. Default: ""`); the msgid line; `msgstr ""`; a blank line.
C7_EntryLayout ==
    last.op = "write" =>
      \A i \in 1..Len(catalog) :
         LET e == catalog[i]
             B == Block(e.msgid.text)
             c == IF e.comments # <<>> THEN 1 ELSE 0
             n == Cardinality(e._locations)
             d == IF e.msgid.default # None THEN 1 ELSE 0
         IN /\ Pos(e.msgid.text) # 0
            /\ Len(B) = c + n + d + 3
            /\ c = 1 => B[1] = e.comments
            /\ \A loc \in e._locations : B[c + Rank(e, loc) + 1] = LocLine(loc)
            /\ d = 1 =>
                 /\ Len(B[c + n + 1]) > 12
                 /\ SubSeq(B[c + n + 1], 1, 12)
                      = <<35, 46, 32, 68, 101, 102, 97, 117, 108, 116, 58, 32>>
            /\ e.msgid.default = Some(<<>>) =>
                 B[c + n + 1] = <<35, 46, 32, 68, 101, 102, 97, 117, 108, 116,
                                  58, 32, 34, 34, 10>>
            /\ B[c + n + d + 1] = MsgidLine(e.msgid.text)
            /\ B[c + n + d + 2] = <<109, 115, 103, 115, 116, 114, 32, 34, 34, 10>>
            /\ B[c + n + d + 3] = <<10>>

\* written: an entry with a comment, two locations and the default ''
C7_Witness ==
    /\ last.op = "write"
    /\ \E i \in 1..Len(catalog) :
          /\ catalog[i].comments # <<>>
          /\ catalog[i].msgid.default = Some(<<>>)
          /\ Cardinality(catalog[i]._locations) = 2
          /\ Len(Block(catalog[i].msgid.text)) = 7

\* C8 as stated: add stores the path of every occurrence without the
\* leading base_dir if it starts with it and unchanged if not, with the
\* line it was passed with.
C8_Original ==
    [][last'.op = "add" =>
         \A i \in 1..Len(last'.strings) :
            last'.strings[i].msgid.text # <<>> =>
              \A loc \in Range(last'.strings[i].locations) :
                 <<StoredPath(loc[1], last'.base_dir, <<47>>), loc[2]>>
                    \in Stored(catalog', last'.strings[i].msgid.text)]_vars

\* C8, amended: the path stored is the path without the leading base_dir
\* if it starts with it and the path itself if not, in both cases with
\* os.sep replaced by '/'; the line is the line passed.
C8_BaseDirStripped ==
    [][last'.op = "add" =>
         \A i \in 1..Len(last'.strings) :
            last'.strings[i].msgid.text # <<>> =>
              \A loc \in Range(last'.strings[i].locations) :
                 <<StoredPath(loc[1], last'.base_dir, ossep), loc[2]>>
                    \in Stored(catalog', last'.strings[i].msgid.text)]_vars

\* added with base_dir 'b/': 'b/f' at line 1, stored as 'f', and 'b\f' at
\* line 2, which does not start with 'b/' and keeps its first character
C8_Witness ==
    /\ last.op = "add"
    /\ last.base_dir = Some(<<98, 47>>)
    /\ Len(last.strings) = 1
    /\ last.strings[1].msgid.text = <<97>>
    /\ last.strings[1].locations = <<<<(<<98, 47, 102>>), 1>>, <<(<<98, 92, 102>>), 2>>>>
    /\ <<(<<102>>), 1>> \in Stored(catalog, <<97>>)
    /\ \E loc \in Stored(catalog, <<97>>) : loc[2] = 2 /\ loc[1][1] = 98

\* C9: the empty string is never a key of the catalog, and an add whose
\* mapping holds only the empty text leaves the catalog as it is.
C9_BlankSkipped ==
    /\ <<>> \notin CatalogTexts(catalog)
    /\ [][/\ <<>> \notin CatalogTexts(catalog')
          /\ (/\ last'.op = "add"
              /\ \A i \in 1..Len(last'.strings) :
                    last'.strings[i].msgid.text = <<>>)
               => catalog' = catalog]_vars

\* a mapping with the empty text alone, with a location, has been added to
\* a catalog that holds an entry, and the catalog holds that entry only
C9_Witness ==
    /\ last.op = "add"
    /\ nops = 2
    /\ Len(last.strings) = 1
    /\ last.strings[1].msgid.text = <<>>
    /\ last.strings[1].locations # <<>>
    /\ Len(catalog) = 1
    /\ <<>> \notin CatalogTexts(catalog)

\* the two catalogs map the same texts to the same sets of occurrences
SameOccurrences(c1, c2) ==
    /\ CatalogTexts(c1) = CatalogTexts(c2)
    /\ \A text \in CatalogTexts(c1) : Stored(c1, text) = Stored(c2, text)

\* the entries of one text carry the same default in the two catalogs
SameDefaults(c1, c2) ==
    \A i \in 1..Len(c1), j \in 1..Len(c2) :
       c1[i].msgid.text = c2[j].msgid.text => c1[i].msgid = c2[j].msgid

\* C6 as stated: two sequences of add calls that end with the same mapping
\* of texts to sets of occurrences are written as the same sequence of
\* entries.
C6_Original ==
    SameOccurrences(catalog, catalog2)
    => WriteEntries(SortEntries(catalog)) = WriteEntries(SortEntries(catalog2))

\* C6, amended: two sequences of add calls that end with the same mapping
\* of texts to sets of occurrences, and with the same default carried by
\* the entry of every text, are written as the same sequence of entries,
\* whatever the order the entries were inserted in.
C6_OrderDeterminism ==
    (SameOccurrences(catalog, catalog2) /\ SameDefaults(catalog, catalog2))
    => WriteEntries(SortEntries(catalog)) = WriteEntries(SortEntries(catalog2))

\* the two makers hold the same two entries at one shared place, inserted
\* in opposite orders, and write the same entries
C6_Witness ==
    /\ Len(catalog) = 2
    /\ Len(catalog2) = 2
    /\ SameOccurrences(catalog, catalog2)
    /\ SameDefaults(catalog, catalog2)
    /\ catalog[1].msgid.text = catalog2[2].msgid.text
    /\ catalog[1]._locations = catalog[2]._locations
    /\ WriteEntries(SortEntries(catalog)) = WriteEntries(SortEntries(catalog2))

(***************************************************************************)
(* Properties of main(): the scanner and the catalog together.             *)
(***************************************************************************)
\* the occurrences the scanner holds for a text, none when it is no key
Scanned(e, text) ==
    UNION {Range(e.messages[i].locations) :
             i \in {j \in 1..Len(e.messages) : e.messages[j].msgid.text = text}}

\* the default of a sighting _(T) or _(T, D) in the scanned code
SightedDefault(c) ==
    IF Len(c.args) = 1 THEN None ELSE Some(LitText(c.args[2]))

\* C10: a text has at most one scanner key and at most one catalog entry;
\* the key or entry is created with the default of the sighting that
\* creates it and keeps it at every later sighting, whatever default that
\* sighting carries; every sighting adds its occurrence to the one key or
\* entry of its text.
C10_FirstDefaultWins ==
    /\ \A i, j \in 1..Len(eater.messages) :
          eater.messages[i].msgid.text = eater.messages[j].msgid.text => i = j
    /\ \A i, j \in 1..Len(catalog) :
          catalog[i].msgid.text = catalog[j].msgid.text => i = j
    /\ [][/\ \A i \in 1..Len(eater.messages) :
                /\ i <= Len(eater'.messages)
                /\ eater'.messages[i].msgid = eater.messages[i].msgid
          /\ \A i \in 1..Len(catalog) :
                /\ i <= Len(catalog')
                /\ catalog'[i].msgid = catalog[i].msgid
          /\ last'.op = "scan"
               => LET T == LitText(last'.call.args[1])
                  IN /\ T \notin ScannedTexts(eater)
                          => HasKey(eater', T, SightedDefault(last'.call))
                     /\ Scanned(eater', T) =
                          Scanned(eater, T)
                          \cup {<<eater.curfile, last'.call.lineno>>}
          /\ last'.op = "add"
               => \A i \in 1..Len(last'.strings) :
                     LET T == last'.strings[i].msgid.text
                     IN /\ (T # <<>> /\ T \notin CatalogTexts(catalog))
                             => \E j \in 1..Len(catalog') :
                                   catalog'[j].msgid = last'.strings[i].msgid
                        /\ T # <<>>
                             => Stored(catalog', T) =
                                  Stored(catalog, T)
                                  \cup {<<StoredPath(loc[1], last'.base_dir,
                                                     ossep), loc[2]>> :
                                          loc \in Passed(last'.strings, T)}]_vars

\* the text 'a' was sighted twice in the scanned code with two defaults
\* and once more, with a third default, in the page templates; the scanner
\* holds one key and the catalog one entry for it, with the default of the
\* first sighting and the three occurrences
C10_Witness ==
    /\ pc.at = "write"
    /\ last.op = "add"
    /\ Len(last.strings) = 1
    /\ last.strings[1].msgid = Message(<<97>>, Some(<<100>>))
    /\ Len(eater.messages) = 1
    /\ eater.messages[1].msgid = Message(<<97>>, Some(<<>>))
    /\ Len(eater.messages[1].locations) = 2
    /\ Len(catalog) = 1
    /\ catalog[1].msgid = Message(<<97>>, Some(<<>>))
    /\ Cardinality(Stored(catalog, <<97>>)) = 3

(***************************************************************************)
(* Properties of the construction of a POTMaker.                           *)
(***************************************************************************)
\* C17: constructing a POTMaker with a header template that does not exist
\* raises ValueError and leaves no POTMaker; without a header template the
\* POTMaker has the default header, with an existing template the content
\* of that file.  While no POTMaker exists no output file is written, and
\* a written file begins with the header of the POTMaker.
C17_MissingHeaderRaises ==
    /\ pot_header = None => (output = <<>> /\ fs = {} /\ catalog = <<>>)
    /\ output # <<>> => output[1] = Val(pot_header)
    /\ [][last'.op = "construct"
          => IF last'.header_template = None
             THEN last'.raised = "" /\ pot_header' = Some(Header)
             ELSE IF os_path_exists(Val(last'.header_template))
             THEN /\ last'.raised = ""
                  /\ pot_header' = Some(read(Val(last'.header_template)))
             ELSE /\ last'.raised = "ValueError"
                  /\ pot_header' = None
                  /\ pc'.at = "raised"]_vars

\* the construction with the template `n` has raised ValueError: there is
\* no POTMaker and no output file
C17_Witness ==
    /\ last.op = "construct"
    /\ last.header_template = Some(<<110>>)
    /\ last.raised = "ValueError"
    /\ pot_header = None
    /\ output = <<>>
    /\ fs = {}

RECURSIVE unescape(_)
\* the text an escaped text stands for: \\, \", \n, \t, \r and \NNN are
\* read back as the one character they were written for
unescape(s) ==
    IF s = <<>> THEN <<>>
    ELSE IF Head(s) # 92 \/ Len(s) = 1 THEN <<Head(s)>> \o unescape(Tail(s))
    ELSE IF s[2] \in 48..55 /\ Len(s) >= 4
    THEN <<(s[2] - 48) * 64 + (s[3] - 48) * 8 + (s[4] - 48)>>
         \o unescape(SubSeq(s, 5, Len(s)))
    ELSE <<(CASE s[2] = 110 -> 10
              [] s[2] = 116 -> 9
              [] s[2] = 114 -> 13
              [] OTHER -> s[2])>>
         \o unescape(SubSeq(s, 3, Len(s)))

RECURSIVE Unquoted(_)
\* the texts of the quoted lines "..." of a message, read back and joined
Unquoted(lines) ==
    IF lines = <<>> THEN <<>>
    ELSE (IF Len(Head(lines)) >= 2
          THEN unescape(SubSeq(Head(lines), 2, Len(Head(lines)) - 1))
          ELSE <<>>)
         \o Unquoted(Tail(lines))

\* the text of the chunk `msgid "..."` with its continuation lines
ReadMsgid(chunk) ==
    Unquoted(split(SubSeq(chunk, 7, Len(chunk) - 1), 10))

\* C19: the msgid line(s) written for a text of backslashes, double
\* quotes, newlines, tabs and other characters, read back by the rules
\* they were escaped with, give the text.
C19_EscapeRoundTrip ==
    (last.op = "write" /\ Len(catalog) = 1)
    => /\ Len(output) = 5
       /\ SubSeq(output[3], 1, 6) = <<109, 115, 103, 105, 100, 32>>
       /\ ReadMsgid(output[3]) = catalog[1].msgid.text

\* the text of a backslash, a double quote and a newline has been
\* written, on two quoted lines after `msgid ""`
C19_Witness ==
    /\ last.op = "write"
    /\ Len(catalog) = 1
    /\ catalog[1].msgid.text = <<92, 34, 10>>
    /\ output[3] = <<109, 115, 103, 105, 100, 32, 34, 34, 10,
                     34, 92, 92, 92, 34, 92, 110, 34, 10>>

(***************************************************************************)
(* Properties of the comments of an entry.                                 *)
(***************************************************************************)
\* the entry at a place of the catalog before a step, a fresh entry when
\* the step has made it
Before(i) ==
    IF i <= Len(catalog) THEN catalog[i] ELSE POTEntry(catalog'[i].msgid)

\* the occurrences the last add has passed for an entry that the entry
\* did not hold, as they are stored
NewFor(i) ==
    {<<StoredPath(loc[1], last'.base_dir, ossep), loc[2]>> :
        loc \in Passed(last'.strings, catalog'[i].msgid.text)}
    \ Before(i)._locations

\* the text t occurs in the text s
Contains(s, t) ==
    \E k \in 0..(Len(s) - Len(t)) : SubSeq(s, k + 1, k + Len(t)) = t

\* C20 as stated: add appends to the comments of the entry the line
\* `#: path:line` of every occurrence that is new for the entry, and
\* leaves the comments as they are when no occurrence is new.
C20_Original ==
    [][last'.op = "add"
       => \A i \in 1..Len(catalog') :
             /\ NewFor(i) = {} => catalog'[i].comments = Before(i).comments
             /\ \A loc \in NewFor(i) :
                   Contains(catalog'[i].comments, LocLine(loc))]_vars

\* C20, amended: add leaves the comments of every entry as they are (a
\* new entry has none); an occurrence that is new for an entry is added
\* to the set of its locations and a stored one is not added again, so
\* that the entry is written with the location lines it had and one line
\* `#: path:line` for each new occurrence.
C20_LocationsNotComments ==
    [][last'.op = "add"
       => \A i \in 1..Len(catalog') :
             /\ catalog'[i].comments = Before(i).comments
             /\ catalog'[i]._locations = Before(i)._locations \cup NewFor(i)
             /\ Range(LocationLines(sorted(catalog'[i]._locations))) =
                  Range(LocationLines(sorted(Before(i)._locations)))
                  \cup {LocLine(loc) : loc \in NewFor(i)}
             /\ Len(LocationLines(sorted(catalog'[i]._locations))) =
                  Cardinality(Before(i)._locations)
                  + Cardinality(NewFor(i))]_vars

\* an entry that carries a comment has been passed a new occurrence,
\* twice in one list: it holds two locations and the comment alone
C20_Witness ==
    /\ last.op = "add"
    /\ nops = 3
    /\ Len(last.strings[1].locations) = 2
    /\ Len(catalog) = 1
    /\ catalog[1].comments = <<35, 32, 99, 10>>
    /\ Cardinality(catalog[1]._locations) = 2

Undefaulted(items) ==
    [i \in 1..Len(items) |->
       [text |-> items[i].msgid.text, locations |-> items[i].locations]]

\* the default of the first sighting of a text in a list of sightings
FirstDefault(l, text) ==
    SightedDefault(l[CHOOSE i \in 1..Len(l) :
                        /\ LitText(l[i].call.args[1]) = text
                        /\ \A j \in 1..(i - 1) :
                              LitText(l[j].call.args[1]) # text].call)

\* C22 as stated: two scans of the same sightings in two orders return
\* the same mapping, the defaults of the keys included.
C22_Original ==
    last.op = "scans" => getCatalog(eater) = getCatalog(eater2)

\* C22, amended: two scans of the same sightings in two orders return the
\* same texts in the same order, each with the same ascending list of its
\* occurrences without duplicates; the default of a key is the default of
\* the first sighting of its text in the order of its scan.
C22_OrderIndependent ==
    last.op = "scans"
    => /\ Undefaulted(getCatalog(eater)) = Undefaulted(getCatalog(eater2))
       /\ \A i \in 1..Len(getCatalog(eater)) :
             LET item == getCatalog(eater)[i]
             IN /\ item.msgid.default =
                     FirstDefault(last.first, item.msgid.text)
                /\ getCatalog(eater2)[i].msgid.default =
                     FirstDefault(last.second, item.msgid.text)
                /\ \A k \in 1..(Len(item.locations) - 1) :
                      EntryLess(item.locations[k], item.locations[k + 1])
                /\ Range(item.locations) =
                     {<<Some(last.first[k].filename),
                        last.first[k].call.lineno>> :
                        k \in {j \in 1..Len(last.first) :
                                 LitText(last.first[j].call.args[1])
                                   = item.msgid.text}}

\* two sightings have been scanned in the two orders: the eaters hold
\* their two keys in different orders and return the same mapping, the
\* key 'b' first
C22_Witness ==
    /\ last.op = "scans"
    /\ Len(last.first) = 2
    /\ last.second = <<last.first[2], last.first[1]>>
    /\ eater.messages # eater2.messages
    /\ Len(eater.messages) = 2
    /\ getCatalog(eater) = getCatalog(eater2)
    /\ getCatalog(eater)[1].msgid.text = <<98>>

\* the locations read from the entries of a text
ReadOf(cat, text) ==
    UNION {Range(locations(cat[i])) :
             i \in {j \in 1..Len(cat) : cat[j].msgid.text = text}}

\* C26: whatever adds and reads have gone before, reading the locations of
\* an entry gives an ascending tuple without duplicates that holds exactly
\* the locations stored for the entry, and an add leaves in it what was
\* read before together with the locations the add passes (base dir
\* stripped, separator normalised): a value cached by an earlier read is
\* never returned after a later addition.
C26_CacheNeverStale ==
    /\ \A i \in 1..Len(catalog) :
         \A got \in {locations(catalog[i])} :
            /\ Range(got) = catalog[i]._locations
            /\ \A j \in 1..(Len(got) - 1) : LocLess(got[j], got[j + 1])
    /\ [][\A text \in CatalogTexts(catalog') :
            ReadOf(catalog', text) =
              ReadOf(catalog, text)
              \cup (IF last'.op = "add"
                    THEN {<<StoredPath(loc[1], last'.base_dir, ossep), loc[2]>> :
                             loc \in Passed(last'.strings, text)}
                    ELSE {})]_vars

\* the entry of 'a' has been written, its locations read and cached, and an
\* add has then given it a second location: the cache is purged and a read
\* gives both
C26_Witness ==
    /\ last.op = "add"
    /\ nops = 2
    /\ Pos(<<97>>) # 0
    /\ \E i \in 1..Len(catalog) :
         /\ catalog[i].msgid.text = <<97>>
         /\ catalog[i].cache = None
         /\ Len(locations(catalog[i])) = 2
         /\ \E loc \in Range(locations(catalog[i])) :
              \A k \in 1..Len(output) : output[k] # LocLine(loc)

\* C27: over adds and writes the catalog only grows: a text that is a key
\* stays a key and a location stored for it stays stored, and a write
\* leaves the keys and every entry's locations and comments as they are.
C27_CatalogOnlyGrows ==
    [][/\ CatalogTexts(catalog) \subseteq CatalogTexts(catalog')
       /\ \A text \in CatalogTexts(catalog) :
            Stored(catalog, text) \subseteq Stored(catalog', text)
       /\ last'.op = "write"
            => /\ Len(catalog') = Len(catalog)
               /\ \A i \in 1..Len(catalog) :
                    /\ catalog'[i].msgid = catalog[i].msgid
                    /\ catalog'[i]._locations = catalog[i]._locations
                    /\ catalog'[i].comments = catalog[i].comments
                    /\ locations(catalog'[i]) = locations(catalog[i])]_vars

\* two adds have made two entries, one of them with two locations, and the
\* catalog has been written
C27_Witness ==
    /\ last.op = "write"
    /\ nops = 2
    /\ Len(catalog) = 2
    /\ \E i \in 1..2 : Cardinality(catalog[i]._locations) = 2
    /\ \A i \in 1..2 : Pos(catalog[i].msgid.text) # 0

(***************************************************************************)
(* Properties of py_strings with verify_domain.                            *)
(***************************************************************************)
\* the catalog py_strings returns holds a location in the file
Returned(filename) ==
    \E i \in 1..Len(last.catalog) :
       \E k \in 1..Len(last.catalog[i].locations) :
          last.catalog[i].locations[k][1] = filename

\* C28: of the files py_strings has gone through before it returns, the
\* catalog leaves out exactly those whose module was imported and has a `_`
\* with a _domain other than the domain asked for, and only when
\* verify_domain is set: a file whose import raised ImportError, whose
\* module has no `_` or whose `_` has no _domain is in the catalog, and so
\* is every file when verify_domain is unset.
C28_SkippedOnMismatchOnly ==
    last.op = "return"
      => \A i \in 1..Len(pc.files) :
            ~Returned(pc.files[i].filename)
              <=> /\ pc.verify_domain
                  /\ pc.files[i].module.import = "ok"
                  /\ pc.files[i].module._domain # None
                  /\ Val(pc.files[i].module._domain) # pc.domain

\* with verify_domain set and the domain 'zope' asked for, py_strings has
\* returned after a file whose `_` has the domain 'x' and a file whose
\* import raised ImportError: the first is left out, the second is not
C28_Witness ==
    /\ last.op = "return"
    /\ pc.verify_domain
    /\ pc.domain = <<122, 111, 112, 101>>
    /\ Len(pc.files) = 2
    /\ pc.files[1].module = Module("ok", "true", Some(<<120>>))
    /\ pc.files[2].module = Module("ImportError", "absent", None)
    /\ ~Returned(pc.files[1].filename)
    /\ Returned(pc.files[2].filename)

(***************************************************************************)
(* Properties of tal_strings.                                              *)
(***************************************************************************)
\* C29: with include_default_domain true, tal_strings returns every message
\* found in a template that declares no domain as well as every message of
\* the domain asked for, whether or not a template declares that domain.
C29_DefaultDomainIncluded ==
    (last.op = "return" /\ pc.include_default_domain)
      => \A i \in 1..Len(pc.engine) :
            pc.engine[i].domain \in {default_domain, pc.domain}
              => pc.engine[i].msgid \in DOMAIN last.strings

(***************************************************************************)
(* Properties of the options of main.                                      *)
(***************************************************************************)
\* C30: a command line that names a path and a site.zcml that exist, does
\* not ask for help and holds -e or --exclude-default-domain does not end
\* in usage: the run goes on, with include_default_domain false.
C30_ExcludeDefaultAccepted ==
    (/\ last.op = "main"
     /\ \E i \in 1..Len(last.argv) :
          last.argv[i].opt \in {"-e", "--exclude-default-domain"}
     /\ \E i \in 1..Len(last.argv) : last.argv[i] = Option("-p", "exists")
     /\ \E i \in 1..Len(last.argv) : last.argv[i] = Option("-s", "exists")
     /\ \A i \in 1..Len(last.argv) :
          last.argv[i].opt \in {"-e", "--exclude-default-domain", "-p", "-s"}
          /\ last.argv[i].arg # "missing")
      => /\ last.status = None
         /\ ~last.include_default_domain

(***************************************************************************)
(* Properties of the keys of the scanner.                                  *)
(***************************************************************************)
\* C31: whatever tokens the scanner has been called with, the text of every
\* key it has recorded, and so of every key getCatalog returns, is not
\* empty: a marker call whose literals are all '' has recorded nothing.
C31_KeysNonEmpty ==
    /\ \A i \in 1..Len(eater.messages) : eater.messages[i].msgid.text # <<>>
    /\ \A i \in 1..Len(getCatalog(eater)) :
          getCatalog(eater)[i].msgid.text # <<>>

(***************************************************************************)
(* Properties of the order of the entries of a catalog.                    *)
(***************************************************************************)
\* the orders in which a dict of n entries may hand out its values
Iterations(n) ==
    {p \in [1..n -> 1..n] : \A i, j \in 1..n : i # j => p[i] # p[j]}

\* C32: two entries of a catalog never compare equal, their texts differ,
\* and of two entries exactly one is less than the other and none is less
\* than itself: sorting the entries gives the same sequence in whatever
\* order the dict hands them out, and so does what write has written.
C32_StrictTotalOrder ==
    /\ \A i, j \in 1..Len(catalog) :
         IF i = j
         THEN ~POTEntry_lt(catalog[i], catalog[j])
         ELSE /\ catalog[i].msgid.text # catalog[j].msgid.text
              /\ ~POTEntry_eq(catalog[i], catalog[j])
              /\ POTEntry_lt(catalog[i], catalog[j])
                   <=> ~POTEntry_lt(catalog[j], catalog[i])
    /\ \A p \in Iterations(Len(catalog)) :
         \A handed \in {[k \in 1..Len(catalog) |-> catalog[p[k]]]} :
            /\ SortEntries(handed) = SortEntries(catalog)
            /\ last.op = "write"
                 => output = POTMaker_write(Val(pot_header), handed)

\* a catalog whose two entries have the same locations has been written,
\* the entry made last first, its text being the smaller one
C32_Witness ==
    /\ last.op = "write"
    /\ Len(catalog) = 2
    /\ locations(catalog[1]) = locations(catalog[2])
    /\ locations(catalog[1]) # <<>>
    /\ StrLess(catalog[2].msgid.text, catalog[1].msgid.text)
    /\ Pos(catalog[2].msgid.text) # 0
    /\ Pos(catalog[2].msgid.text) < Pos(catalog[1].msgid.text)

====
